---- MODULE Spec2Model ----
(***************************************************************************)
(* A model of the request-execution core of the RevMax Node.js SDK:        *)
(* ApiKeyAuth (credential validation), Telemetry (in-flight table and      *)
(* aggregate counters), parseApiError (error classifier), ApiClient        *)
(* (retry loop and interceptors) and RevMaxClient.connect (handshake).     *)
(***************************************************************************)
EXTENDS Integers, Sequences, FiniteSets, TLC

\* ------------------------------------------------------------------ bounds
\* largest retry budget a client is configured with (options.retries)
MaxRetries == 2
\* largest duration (ms) Date.now() - startTime of one attempt
MaxDuration == 1
\* longest identifier part appended to a credential prefix
MaxSuffixLen == 17

\* largest retry budget of a client that runs concurrent calls
MaxRetriesConc == 1
\* largest number of requests handed to a recorder that is driven directly
MaxRequests == 3
\* largest number of segments of a path handed to normalizePath
MaxSegments == 2

\* the logical calls that run concurrently against one client
Calls == {1, 2}

\* ------------------------------------------------------- program constants
DefaultRetryDelay == 300
MinKeyIdLen == 16
REVX_API_KEY_PREFIX == <<"r", "e", "v", "x", "_", "p", "k", "_">>

\* error.response?.status of a failure that carries no response
NoStatus == 0
\* the literal 'unknown' used when no request identifier is available
UnknownId == 0
\* a request identifier that is undefined or the empty string
NoId == -1

\* ------------------------------------------------------------------ state
VARIABLES
    \* the options given to the RevMaxClient constructor, and the ApiClient
    \* configuration made from them, fixed at construction
    options, retries, retryDelay,
    \* Telemetry configuration, fixed at construction
    enabled, sampleRate,
    \* per logical call: position, operation, loop counter, the attempt's
    \* X-Request-ID, metadata.telemetryTracked, lastError, the pending sleep,
    \* the number of attempts sent, what the caller got
    pc, op, retry, reqId, isTracked, lastError, wait, attempts, result,
    \* the request identifier generator
    nextId,
    \* Telemetry
    activeRequests, requestCount, successCount, errorCount, totalDuration,
    errorTypes,
    \* the telemetry handler's invocations, and the last public call made
    \* and what the handler saw at its latest invocation
    handlerCalls, lastCall, handled,
    \* tracked attempts completed since the last reset, by transport outcome
    okDone, failDone, failNames, outcomes,
    \* RevMaxClient._orgInfo and ApiKeyAuth.verified; the organization of the
    \* response body of the latest successful handshake
    orgInfo, verified, lastHandshake,
    \* ApiKeyAuth construction: the credential given and what came of it
    credential, auth,
    \* an error handed to parseApiError, what it returned, and what the catch
    \* blocks of connect() and verifyApiKey() made of that
    classInput, classOutput, facadeOutput,
    \* a path handed to Telemetry.normalizePath and what came back
    pathInput, pathOutput

cfgVars == <<options, retries, retryDelay, enabled, sampleRate>>
callVars == <<pc, op, retry, reqId, isTracked, lastError, wait, attempts, result>>
statVars == <<requestCount, successCount, errorCount, totalDuration, errorTypes>>
teleVars == <<activeRequests, requestCount, successCount, errorCount, totalDuration,
              errorTypes, handlerCalls, handled>>
ghostVars == <<okDone, failDone, failNames, outcomes>>
clientVars == <<orgInfo, verified, lastHandshake>>
authVars == <<credential, auth>>
classVars == <<classInput, classOutput, facadeOutput, pathInput, pathOutput>>
vars == <<options, retries, retryDelay, enabled, sampleRate, pc, op, retry, reqId, isTracked,
          lastError, wait, attempts, result, nextId, activeRequests, requestCount,
          successCount, errorCount, totalDuration, errorTypes, handlerCalls, handled, lastCall,
          okDone, failDone, failNames, outcomes, orgInfo, verified, lastHandshake,
          credential,
          auth, classInput, classOutput, facadeOutput, pathInput, pathOutput>>

\* ----------------------------------------------------------------- numbers
\* a JavaScript number that may be NaN
Num(n) == [nan |-> FALSE, v |-> n]
NaN == [nan |-> TRUE, v |-> 0]
Times(x, k) == IF x.nan THEN NaN ELSE Num(x.v * k)

Digits == {"0", "1", "2", "3", "4", "5", "6", "7", "8", "9"}
DigitVal(ch) ==
    CASE ch = "0" -> 0 [] ch = "1" -> 1 [] ch = "2" -> 2 [] ch = "3" -> 3
      [] ch = "4" -> 4 [] ch = "5" -> 5 [] ch = "6" -> 6 [] ch = "7" -> 7
      [] ch = "8" -> 8 [] ch = "9" -> 9
DigitChar(d) ==
    CASE d = 0 -> "0" [] d = 1 -> "1" [] d = 2 -> "2" [] d = 3 -> "3"
      [] d = 4 -> "4" [] d = 5 -> "5" [] d = 6 -> "6" [] d = 7 -> "7"
      [] d = 8 -> "8" [] d = 9 -> "9"

\* the decimal text of a natural number, as a server writes a header value
RECURSIVE IntToStr(_)
IntToStr(n) == IF n < 10 THEN <<DigitChar(n)>>
               ELSE IntToStr(n \div 10) \o <<DigitChar(n % 10)>>

\* the value of the longest run of leading decimal digits, acc digits read so far
RECURSIVE ParseDigits(_, _, _)
ParseDigits(s, acc, seen) ==
    IF s # <<>> /\ Head(s) \in Digits
      THEN ParseDigits(Tail(s), acc * 10 + DigitVal(Head(s)), TRUE)
      ELSE IF seen THEN Num(acc) ELSE NaN

\* parseInt(s, 10): optional sign, leading digits, NaN when there are none
ParseInt(s) ==
    IF s # <<>> /\ Head(s) = "-"
      THEN Times(ParseDigits(Tail(s), 0, FALSE), -1)
      ELSE ParseDigits(s, 0, FALSE)

\* a response header that is absent
NoHeader == <<>>

\* ------------------------------------------------------------ error classes
ErrorKinds == {"RevMaxError", "RevMaxApiError", "RevMaxAuthenticationError",
               "RevMaxRateLimitError", "RevMaxValidationError",
               "RevMaxNotFoundError", "RevMaxInitializationError"}

\* the direct superclass of each error class (extends clauses)
SuperClass(kind) ==
    CASE kind = "RevMaxApiError" -> "RevMaxError"
      [] kind = "RevMaxAuthenticationError" -> "RevMaxError"
      [] kind = "RevMaxRateLimitError" -> "RevMaxApiError"
      [] kind = "RevMaxValidationError" -> "RevMaxError"
      [] kind = "RevMaxNotFoundError" -> "RevMaxApiError"
      [] kind = "RevMaxInitializationError" -> "RevMaxError"
      [] OTHER -> "Error"

\* error instanceof cls
RECURSIVE InstanceOf(_, _)
InstanceOf(kind, cls) ==
    IF kind = cls THEN TRUE
    ELSE IF kind \in ErrorKinds THEN InstanceOf(SuperClass(kind), cls)
    ELSE FALSE

\* the field-level errors of a 422 response body (data.errors), and none
FieldErrors == [field \in {"email"} |-> "is required"]
NoFieldErrors == [field \in {} |-> ""]

\* An error object as a caller sees it.  statusCode is NoStatus, errorCode is
\* "" and hasRetryAfter/hasValidation are FALSE when the class does not
\* define the field; requestId is NoId when metadata carries none.
MkError(kind, message, statusCode, errorCode, hasRetryAfter, retryAfter, validationErrors, requestId) ==
    [kind |-> kind, message |-> message, statusCode |-> statusCode,
     errorCode |-> errorCode, hasRetryAfter |-> hasRetryAfter,
     retryAfter |-> retryAfter, hasValidation |-> kind = "RevMaxValidationError",
     validationErrors |-> validationErrors, requestId |-> requestId]

RevMaxError(message, requestId) ==
    MkError("RevMaxError", message, NoStatus, "", FALSE, Num(0), NoFieldErrors, requestId)
RevMaxApiError(message, statusCode, errorCode, requestId) ==
    MkError("RevMaxApiError", message, statusCode, errorCode, FALSE, Num(0),
            NoFieldErrors, requestId)
RevMaxAuthenticationError(message, requestId) ==
    MkError("RevMaxAuthenticationError", message, NoStatus, "", FALSE, Num(0),
            NoFieldErrors, requestId)
RevMaxRateLimitError(message, retryAfter, requestId) ==
    MkError("RevMaxRateLimitError", message, 429, "rate_limit_exceeded", TRUE,
            retryAfter, NoFieldErrors, requestId)
RevMaxValidationError(message, validationErrors, requestId) ==
    MkError("RevMaxValidationError", message, NoStatus, "", FALSE, Num(0),
            validationErrors, requestId)
RevMaxInitializationError(message, requestId) ==
    MkError("RevMaxInitializationError", message, NoStatus, "", FALSE, Num(0),
            NoFieldErrors, requestId)
\* the TypeError the runtime raises on reading a property of undefined
TypeError ==
    MkError("TypeError", "Cannot read properties of undefined (reading 'message')",
            NoStatus, "", FALSE, Num(0), NoFieldErrors, NoId)
NoError == MkError("none", "", NoStatus, "", FALSE, Num(0), NoFieldErrors, NoId)

\* ------------------------------------------------------- transport outcomes
StatusCodes == {400, 401, 404, 422, 429, 500, 503}
\* seconds a server may announce in a retry-after header
RetryAfterSecs == {0, 5, 12}
RetryAfterHeaders ==
    {NoHeader} \cup {IntToStr(n) : n \in RetryAfterSecs} \cup {<<"x">>}

\* A rejected attempt as the transport delivers it (an axios error):
\* hasResponse/status/retryAfter/hasErrors are error.response, .status,
\* .headers['retry-after'] and .data.errors; name and message are error.name
\* and error.message (a rejection with a plain object has neither);
\* dataMessage, dataCode and dataRequestId are error.response.data.message,
\* .code and .requestId ("" and NoId when the body has none).
MkFailure(hasResponse, status, retryAfter, hasErrors, name) ==
    [hasResponse |-> hasResponse, status |-> status, retryAfter |-> retryAfter,
     hasErrors |-> hasErrors, dataRequestId |-> NoId, name |-> name,
     message |-> IF name = "" THEN "" ELSE "Request failed",
     dataMessage |-> "", dataCode |-> ""]

NetworkFailures == {MkFailure(FALSE, NoStatus, NoHeader, FALSE, n) : n \in {"Error", ""}}
HttpFailures ==
    {MkFailure(TRUE, st, NoHeader, FALSE, "AxiosError") : st \in StatusCodes}
    \cup {MkFailure(TRUE, st, h, FALSE, "AxiosError") :
            st \in {429, 503}, h \in RetryAfterHeaders}
    \cup {MkFailure(TRUE, 422, NoHeader, TRUE, "AxiosError")}
Failures == NetworkFailures \cup HttpFailures

\* lastError of ApiClient.request: undefined until an attempt has failed, then
\* the failure together with error.config.headers['X-Request-ID']
Undefined == [defined |-> FALSE, failure |-> MkFailure(FALSE, NoStatus, NoHeader, FALSE, ""),
              configRequestId |-> NoId]
Caught(failure, id) == [defined |-> TRUE, failure |-> failure, configRequestId |-> id]

\* response bodies of GET /verify and of resource calls
MkBody(isNull, hasOrg, orgId, hasName) ==
    [isNull |-> isNull, hasOrg |-> hasOrg, orgId |-> orgId, hasName |-> hasName]
Bodies == {MkBody(FALSE, TRUE, "org_1", TRUE), MkBody(FALSE, TRUE, "org_2", TRUE),
           MkBody(FALSE, TRUE, "org_1", FALSE), MkBody(FALSE, TRUE, "", TRUE),
           MkBody(FALSE, FALSE, "", FALSE), MkBody(TRUE, FALSE, "", FALSE)}
NoBody == MkBody(TRUE, FALSE, "", FALSE)
NoOrg == [id |-> "", hasName |-> FALSE]

\* -------------------------------------------------------------- classifier
\* a || b on strings, and on request identifiers
OrElse(a, b) == IF a # "" THEN a ELSE b
IdOrElse_First(a, b) == a

IdOrElse(a, b) == IF a # NoId THEN a ELSE b

\* error.response?.data || {}: the body's fields, absent without a response
ResponseData_NoErrors(f) ==
    [message |-> IF f.hasResponse THEN f.dataMessage ELSE "",
     code |-> IF f.hasResponse THEN f.dataCode ELSE "",
     requestId |-> IF f.hasResponse THEN f.dataRequestId ELSE NoId,
     errors |-> NoFieldErrors, hasErrors |-> FALSE]

ResponseData(f) ==
    IF f.hasResponse
      THEN [message |-> f.dataMessage, code |-> f.dataCode,
            requestId |-> f.dataRequestId,
            errors |-> IF f.hasErrors THEN FieldErrors ELSE NoFieldErrors,
            hasErrors |-> f.hasErrors]
      ELSE [message |-> "", code |-> "", requestId |-> NoId,
            errors |-> NoFieldErrors, hasErrors |-> FALSE]

\* parseApiError(error); reading error.message of an undefined error raises
ParseApiError(error) ==
    IF ~error.defined THEN TypeError
    ELSE LET f == error.failure
             message == OrElse(f.message, "Unknown error")
             statusCode == IF f.hasResponse THEN f.status ELSE NoStatus
             responseData == ResponseData(f)
             requestId == IdOrElse(error.configRequestId,
                                   IdOrElse(responseData.requestId, UnknownId))
         IN  IF statusCode = 401
               THEN RevMaxAuthenticationError(
                      OrElse(responseData.message, "Authentication failed"), requestId)
             ELSE IF statusCode = 429
               THEN RevMaxRateLimitError(
                      OrElse(responseData.message, "Rate limit exceeded"),
                      ParseInt(IF f.hasResponse /\ f.retryAfter # NoHeader
                                 THEN f.retryAfter ELSE <<"0">>),
                      requestId)
             ELSE IF statusCode = 422 /\ responseData.hasErrors
               THEN RevMaxValidationError(
                      OrElse(responseData.message, "Validation failed"),
                      responseData.errors, requestId)
             ELSE IF statusCode # NoStatus
               THEN RevMaxApiError(OrElse(responseData.message, message), statusCode,
                                   responseData.code, requestId)
             ELSE RevMaxError(message, requestId)

\* ---------------------------------------------------------- retry policy
RECURSIVE Pow2(_)
Pow2(k) == IF k = 0 THEN 1 ELSE 2 * Pow2(k - 1)

calculateBackoff(retryCount, initialDelay) == initialDelay * Pow2(retryCount)

isRetryable_No429(failure) ==
    IF failure.hasResponse THEN failure.status >= 500 /\ failure.status < 600
    ELSE ~failure.hasResponse

isRetryable(failure) ==
    IF failure.hasResponse
      THEN failure.status = 429 \/ (failure.status >= 500 /\ failure.status < 600)
      ELSE ~failure.hasResponse

\* retry < this.retries && isRetryable(error), for the loop counter retryCount
ShouldRetry_OffByOne(retryCount, failure) ==
    retryCount + 1 < retries /\ isRetryable(failure)

ShouldRetry(retryCount, failure) == retryCount < retries /\ isRetryable(failure)

\* the argument of sleep() in the catch block of ApiClient.request
RetryWait_BackoffOnly(failure, retryCount, initialDelay) ==
    Num(calculateBackoff(retryCount, initialDelay))

RetryWait(failure, retryCount, initialDelay) ==
    IF failure.hasResponse /\ failure.retryAfter # NoHeader
      THEN Times(ParseInt(failure.retryAfter), 1000)
      ELSE Num(calculateBackoff(retryCount, initialDelay))

\* ---------------------------------------------------------------- telemetry
\* sampleRate and Math.random() in hundredths; Math.random() is in [0, 1)
SampleRates == {0, 50, 100}
Draws == {0, 50, 99}

HexDigits == Digits \cup {"a", "b", "c", "d", "e", "f", "A", "B", "C", "D", "E", "F"}
IdToken == <<"/", ":", "i", "d">>
Drop(s, n) == SubSeq(s, n + 1, Len(s))

\* s starts with n hexadecimal digits
HexRun(s, n) == Len(s) >= n /\ \A i \in 1..n : s[i] \in HexDigits

\* /\/[0-9a-f]{8}-[0-9a-f]{4}-[0-9a-f]{4}-[0-9a-f]{4}-[0-9a-f]{12}/i matches at
\* the start of s
UuidAt(s) ==
    /\ Len(s) >= 37
    /\ s[1] = "/" /\ HexRun(Drop(s, 1), 8)
    /\ s[10] = "-" /\ HexRun(Drop(s, 10), 4)
    /\ s[15] = "-" /\ HexRun(Drop(s, 15), 4)
    /\ s[20] = "-" /\ HexRun(Drop(s, 20), 4)
    /\ s[25] = "-" /\ HexRun(Drop(s, 25), 12)

RECURSIVE ReplaceUuids(_)
ReplaceUuids(s) ==
    IF s = <<>> THEN <<>>
    ELSE IF UuidAt(s) THEN IdToken \o ReplaceUuids(Drop(s, 37))
    ELSE <<Head(s)>> \o ReplaceUuids(Tail(s))

\* the number of leading decimal digits of s
RECURSIVE DigitRun(_)
DigitRun(s) == IF s # <<>> /\ Head(s) \in Digits THEN 1 + DigitRun(Tail(s)) ELSE 0

\* /\/\d+(?=\/|$)/ matches at the start of s; the greedy \d+ cannot give a
\* digit back to reach the lookahead, so the whole run must end the segment
NumericAt(s) ==
    /\ s # <<>> /\ Head(s) = "/"
    /\ LET n == DigitRun(Tail(s))
       IN  n > 0 /\ (Len(s) = n + 1 \/ s[n + 2] = "/")

RECURSIVE ReplaceNumerics(_)
ReplaceNumerics(s) ==
    IF s = <<>> THEN <<>>
    ELSE IF NumericAt(s) THEN IdToken \o ReplaceNumerics(Drop(s, 1 + DigitRun(Tail(s))))
    ELSE <<Head(s)>> \o ReplaceNumerics(Tail(s))

normalizePath(path) ==
    IF path = <<>> THEN <<>>
    ELSE LET normalizedPath == IF Head(path) = "/" THEN path ELSE <<"/">> \o path
         IN  ReplaceNumerics(ReplaceUuids(normalizedPath))

shouldCollect(draw) == IF ~enabled THEN FALSE ELSE draw <= sampleRate

\* Map.set(id, metrics)
MapSet(m, k, v) == [x \in DOMAIN m \cup {k} |-> IF x = k THEN v ELSE m[x]]
MapDelete(m, k) == [x \in DOMAIN m \ {k} |-> m[x]]
EmptyMap == [x \in {} |-> 0]

\* one more occurrence of x in a multiset
Tally(bag, x) ==
    [y \in DOMAIN bag \cup {x} |->
       (IF y \in DOMAIN bag THEN bag[y] ELSE 0) + (IF y = x THEN 1 ELSE 0)]

\* Telemetry.startRequest(method, path, requestId) with the given random draw;
\* its result's isTracked is shouldCollect(draw)
startRequest(method, path, id, draw) ==
    /\ activeRequests' =
         IF shouldCollect(draw)
           THEN MapSet(activeRequests, id,
                       [requestId |-> id, method |-> method, path |-> normalizePath(path)])
           ELSE activeRequests
    /\ UNCHANGED <<statVars, handlerCalls, handled>>

\* errorTypes.set(type, (errorTypes.get(type) || 0) + 1)
CountError_Overwrite(types, type) == MapSet(types, type, 1)

CountError(types, type) ==
    MapSet(types, type, (IF type \in DOMAIN types THEN types[type] ELSE 0) + 1)

\* error.name || 'UnknownError'
ErrorType(name) == IF name # "" THEN name ELSE "UnknownError"

\* metrics.success = !error && (statusCode ? statusCode < 400 : true)
SuccessFlag(statusCode, hasError) ==
    ~hasError /\ (IF statusCode # NoStatus THEN statusCode < 400 ELSE TRUE)

\* The metrics record handed to this.handler(metrics), with what a handler that
\* calls getStats() and looks for the entry observes at that moment: count is
\* requestCount and table is activeRequests as they stand when it is invoked.
HandlerView(id, statusCode, hasError, name, retryCount, duration, count, table) ==
    [requestId |-> id, statusCode |-> statusCode,
     success |-> SuccessFlag(statusCode, hasError),
     errorType |-> IF hasError THEN ErrorType(name) ELSE "",
     retryCount |-> retryCount, duration |-> duration,
     seenCount |-> count, entryPresent |-> id \in DOMAIN table]
NoMetrics == HandlerView(NoId, NoStatus, FALSE, "", 0, 0, 0, EmptyMap)

\* Telemetry.endRequest(requestId, statusCode, error, retryCount), completing
\* after duration ms; hasError and name are the error argument and its name
endRequest_CountsUnknown(id, statusCode, hasError, name, retryCount, duration) ==
    /\ requestCount' = requestCount + 1
    /\ successCount' = IF hasError THEN successCount ELSE successCount + 1
    /\ errorCount' = IF hasError THEN errorCount + 1 ELSE errorCount
    /\ errorTypes' = IF hasError THEN CountError(errorTypes, ErrorType(name))
                     ELSE errorTypes
    /\ totalDuration' = totalDuration + duration
    /\ handlerCalls' = handlerCalls + 1
    /\ handled' = HandlerView(id, statusCode, hasError, name, retryCount, duration,
                              requestCount', activeRequests)
    /\ activeRequests' = MapDelete(activeRequests, id)

endRequest_NoDelete(id, statusCode, hasError, name, retryCount, duration) ==
    IF id \notin DOMAIN activeRequests
      THEN UNCHANGED teleVars
      ELSE /\ requestCount' = requestCount + 1
           /\ successCount' = IF hasError THEN successCount ELSE successCount + 1
           /\ errorCount' = IF hasError THEN errorCount + 1 ELSE errorCount
           /\ errorTypes' = IF hasError THEN CountError(errorTypes, ErrorType(name))
                            ELSE errorTypes
           /\ totalDuration' = totalDuration + duration
           /\ handlerCalls' = handlerCalls + 1
           /\ handled' = HandlerView(id, statusCode, hasError, name, retryCount, duration,
                                     requestCount', activeRequests)
           /\ activeRequests' = activeRequests

endRequest_OneErrorBucket(id, statusCode, hasError, name, retryCount, duration) ==
    IF id \notin DOMAIN activeRequests
      THEN UNCHANGED teleVars
      ELSE /\ requestCount' = requestCount + 1
           /\ successCount' = IF hasError THEN successCount ELSE successCount + 1
           /\ errorCount' = IF hasError THEN errorCount + 1 ELSE errorCount
           /\ errorTypes' = IF hasError THEN MapSet(errorTypes, ErrorType(name), 1)
                            ELSE errorTypes
           /\ totalDuration' = totalDuration + duration
           /\ handlerCalls' = handlerCalls + 1
           /\ handled' = HandlerView(id, statusCode, hasError, name, retryCount, duration,
                                     requestCount', activeRequests)
           /\ activeRequests' = MapDelete(activeRequests, id)

endRequest_HandlerLast(id, statusCode, hasError, name, retryCount, duration) ==
    IF id \notin DOMAIN activeRequests
      THEN UNCHANGED teleVars
      ELSE /\ requestCount' = requestCount + 1
           /\ successCount' = IF hasError THEN successCount ELSE successCount + 1
           /\ errorCount' = IF hasError THEN errorCount + 1 ELSE errorCount
           /\ errorTypes' = IF hasError THEN CountError(errorTypes, ErrorType(name))
                            ELSE errorTypes
           /\ totalDuration' = totalDuration + duration
           /\ activeRequests' = MapDelete(activeRequests, id)
           /\ handlerCalls' = handlerCalls + 1
           /\ handled' = HandlerView(id, statusCode, hasError, name, retryCount, duration,
                                     requestCount', activeRequests')

endRequest_FlagGuardsSuccess(id, statusCode, hasError, name, retryCount, duration) ==
    IF id \notin DOMAIN activeRequests
      THEN UNCHANGED teleVars
      ELSE /\ requestCount' = requestCount + 1
           /\ successCount' = IF SuccessFlag(statusCode, hasError) THEN successCount + 1
                               ELSE successCount
           /\ errorCount' = IF hasError THEN errorCount + 1 ELSE errorCount
           /\ errorTypes' = IF hasError THEN CountError(errorTypes, ErrorType(name))
                            ELSE errorTypes
           /\ totalDuration' = totalDuration + duration
           /\ handlerCalls' = handlerCalls + 1
           /\ handled' = HandlerView(id, statusCode, hasError, name, retryCount, duration,
                                     requestCount', activeRequests)
           /\ activeRequests' = MapDelete(activeRequests, id)

endRequest_ErrorClearsSuccesses(id, statusCode, hasError, name, retryCount, duration) ==
    IF id \notin DOMAIN activeRequests
      THEN UNCHANGED teleVars
      ELSE /\ requestCount' = IF hasError THEN errorCount + 1 ELSE requestCount + 1
           /\ successCount' = IF hasError THEN 0 ELSE successCount + 1
           /\ errorCount' = IF hasError THEN errorCount + 1 ELSE errorCount
           /\ errorTypes' = IF hasError THEN CountError(errorTypes, ErrorType(name))
                            ELSE errorTypes
           /\ totalDuration' = totalDuration + duration
           /\ handlerCalls' = handlerCalls + 1
           /\ handled' = HandlerView(id, statusCode, hasError, name, retryCount, duration,
                                     requestCount', activeRequests)
           /\ activeRequests' = MapDelete(activeRequests, id)

endRequest(id, statusCode, hasError, name, retryCount, duration) ==
    IF id \notin DOMAIN activeRequests
      THEN UNCHANGED teleVars
      ELSE /\ requestCount' = requestCount + 1
           /\ successCount' = IF hasError THEN successCount ELSE successCount + 1
           /\ errorCount' = IF hasError THEN errorCount + 1 ELSE errorCount
           /\ errorTypes' = IF hasError THEN CountError(errorTypes, ErrorType(name))
                            ELSE errorTypes
           /\ totalDuration' = totalDuration + duration
           \* this.handler(metrics)
           /\ handlerCalls' = handlerCalls + 1
           /\ handled' = HandlerView(id, statusCode, hasError, name, retryCount, duration,
                                     requestCount', activeRequests)
           /\ activeRequests' = MapDelete(activeRequests, id)

\* a quotient num / den of two counters
Ratio(num, den) == [num |-> num, den |-> den]
RatioEq(a, b) == a.num * b.den = b.num * a.den

\* Telemetry.getStats()
getStats ==
    [requestCount |-> requestCount,
     successCount |-> successCount,
     errorCount |-> errorCount,
     successRate |-> IF requestCount > 0 THEN Ratio(successCount, requestCount)
                     ELSE Ratio(1, 1),
     averageDuration |-> IF requestCount > 0 THEN Ratio(totalDuration, requestCount)
                         ELSE Ratio(0, 1),
     errorBreakdown |-> errorTypes]

\* Telemetry.resetStats()
resetStats_KeepsHistogram ==
    /\ requestCount' = 0
    /\ successCount' = 0
    /\ errorCount' = 0
    /\ totalDuration' = 0
    /\ errorTypes' = errorTypes
    /\ UNCHANGED <<activeRequests, handlerCalls, handled>>

resetStats_ClearsInFlight ==
    /\ requestCount' = 0
    /\ successCount' = 0
    /\ errorCount' = 0
    /\ totalDuration' = 0
    /\ errorTypes' = EmptyMap
    /\ activeRequests' = EmptyMap
    /\ UNCHANGED <<handlerCalls, handled>>

resetStats ==
    /\ requestCount' = 0
    /\ successCount' = 0
    /\ errorCount' = 0
    /\ totalDuration' = 0
    /\ errorTypes' = EmptyMap
    /\ UNCHANGED <<activeRequests, handlerCalls, handled>>

\* ------------------------------------------------------------ the facade
Ops == {"get", "connect", "verify"}
\* the operations that perform the handshake (GET /verify)
Handshakes == {"connect", "verify"}
\* the URL each operation requests
Url(o) == IF o \in Handshakes THEN <<"/", "v", "e", "r", "i", "f", "y">>
          ELSE <<"/", "c", "u", "s", "t", "o", "m", "e", "r", "s", "/", "4", "8", "2", "1">>
\* method.toUpperCase() of the method axios hands to the interceptor
ToUpperCase(m) == CASE m = "get" -> "GET" [] m = "post" -> "POST" [] OTHER -> m

\* result.organization as OrganizationInfo
OrgOf(body) == [id |-> body.orgId, hasName |-> body.hasName]

NoResult == [type |-> "none", body |-> NoBody, error |-> NoError]
Threw(e) == [type |-> "error", body |-> NoBody, error |-> e]
Returned(body) == [type |-> "value", body |-> body, error |-> NoError]
ReturnedClient == [type |-> "client", body |-> NoBody, error |-> NoError]
\* return { ...this._orgInfo }
ReturnedOrg(org) == [type |-> "org", body |-> MkBody(FALSE, TRUE, org.id, org.hasName),
                     error |-> NoError]

\* the catch block of RevMaxClient.connect: the error it rethrows
connectCatch_Rethrow(error) == error

connectCatch(error) ==
    LET statusCode == error.statusCode
        errorMessage == OrElse(error.message, "Unknown error")
        requestId == IdOrElse(error.requestId, UnknownId)
    IN  IF statusCode = 401
          THEN RevMaxAuthenticationError(
                 "Invalid API key. Please check your API key and try again.", requestId)
          ELSE RevMaxInitializationError("Connection failed: " \o errorMessage, requestId)

\* the catch block of RevMaxClient.verifyApiKey: the error it rethrows
verifyCatch_Wraps(error) == connectCatch(error)

verifyCatch(error) ==
    LET statusCode == error.statusCode
        requestId == IdOrElse(error.requestId, UnknownId)
    IN  IF statusCode = 401
          THEN RevMaxAuthenticationError(
                 "Invalid API key. Please check your API key and try again.", requestId)
          ELSE error

\* the error that leaves operation o when e was thrown inside its try block
Rethrow(o, e) ==
    IF o = "connect" THEN connectCatch(e)
    ELSE IF o = "verify" THEN verifyCatch(e)
    ELSE e

\* !result || !result.organization || !result.organization.id
BadVerifyBody_IgnoresId(body) == body.isNull \/ ~body.hasOrg

BadVerifyBody(body) == body.isNull \/ ~body.hasOrg \/ body.orgId = ""

UnexpectedFormat ==
    RevMaxInitializationError("Unexpected response format from API key verification", NoId)

\* RevMaxClient.getOrganization()
getOrganization ==
    IF orgInfo = NoOrg
      THEN Threw(MkError("Error", "Organization information is not available",
                         NoStatus, "", FALSE, Num(0), NoFieldErrors, NoId))
      ELSE ReturnedOrg(orgInfo)

\* ApiClient.request has thrown e out of call c running operation o
Raise_ClearsOrg(c, o, e) ==
    /\ result' = [result EXCEPT ![c] = Threw(Rethrow(o, e))]
    /\ orgInfo' = IF o \in Handshakes THEN NoOrg ELSE orgInfo
    /\ verified' = IF o \in Handshakes THEN FALSE ELSE verified
    /\ UNCHANGED lastHandshake

Raise(c, o, e) ==
    /\ result' = [result EXCEPT ![c] = Threw(Rethrow(o, e))]
    /\ UNCHANGED clientVars

\* ApiClient.get has returned body to call c running operation o
Return_VerifyKeepsOrg(c, o, body) ==
    IF o \in Handshakes
      THEN IF BadVerifyBody(body)
             THEN /\ result' = [result EXCEPT ![c] = Threw(Rethrow(o, UnexpectedFormat))]
                  /\ UNCHANGED clientVars
             ELSE /\ orgInfo' = IF o = "connect" THEN OrgOf(body) ELSE orgInfo
                  /\ verified' = IF o = "connect" THEN TRUE ELSE verified
                  /\ lastHandshake' = OrgOf(body)
                  /\ result' = [result EXCEPT ![c] =
                                  IF o = "connect" THEN ReturnedClient
                                  ELSE ReturnedOrg(orgInfo')]
      ELSE /\ result' = [result EXCEPT ![c] = Returned(body)]
           /\ UNCHANGED clientVars

Return(c, o, body) ==
    IF o \in Handshakes
      THEN IF BadVerifyBody(body)
             THEN /\ result' = [result EXCEPT ![c] = Threw(Rethrow(o, UnexpectedFormat))]
                  /\ UNCHANGED clientVars
             ELSE /\ orgInfo' = OrgOf(body)
                  \* connect() calls this.auth.setVerified(true); verifyApiKey() does not
                  /\ verified' = IF o = "connect" THEN TRUE ELSE verified
                  /\ lastHandshake' = OrgOf(body)
                  /\ result' = [result EXCEPT ![c] =
                                  IF o = "connect" THEN ReturnedClient
                                  ELSE ReturnedOrg(orgInfo')]
      ELSE /\ result' = [result EXCEPT ![c] = Returned(body)]
           /\ UNCHANGED clientVars

\* ------------------------------------------------------------- ApiKeyAuth
\* A value handed to the constructor: its typeof, its truthiness when it is
\* not a string, and its characters when it is one
MkCredential(type, truthy, str) == [type |-> type, truthy |-> truthy, str |-> str]

RECURSIVE Repeat(_, _)
Repeat(ch, n) == IF n = 0 THEN <<>> ELSE <<ch>> \o Repeat(ch, n - 1)

Prefixes == {REVX_API_KEY_PREFIX,
             <<"r", "e", "v", "x", "_", "s", "k", "_">>,
             <<"R", "E", "V", "X", "_", "P", "K", "_">>,
             <<"r", "e", "v", "x", "_", "p", "k">>,
             <<"x", "r", "e", "v", "x", "_", "p", "k", "_">>,
             <<>>}
StringCredentials ==
    {MkCredential("string", FALSE, pre \o Repeat("a", n)) :
       pre \in Prefixes, n \in 0..MaxSuffixLen}
OtherCredentials ==
    {MkCredential("undefined", FALSE, <<>>), MkCredential("object", FALSE, <<>>),
     MkCredential("number", FALSE, <<>>), MkCredential("number", TRUE, <<>>),
     MkCredential("boolean", TRUE, <<>>), MkCredential("object", TRUE, <<>>)}
Credentials == StringCredentials \cup OtherCredentials
ValidCredential == MkCredential("string", FALSE, REVX_API_KEY_PREFIX \o Repeat("a", MinKeyIdLen))

\* !apiKey
Falsy(cred) == IF cred.type = "string" THEN cred.str = <<>> ELSE ~cred.truthy
\* apiKey.startsWith(prefix)
StartsWith(str, prefix) ==
    Len(str) >= Len(prefix) /\ SubSeq(str, 1, Len(prefix)) = prefix

NotConstructed == [state |-> "new", apiKey |-> <<>>, error |-> NoError]
Constructed(str) == [state |-> "constructed", apiKey |-> str, error |-> NoError]
ConstructorThrew(message) == [state |-> "threw", apiKey |-> <<>>,
                              error |-> RevMaxAuthenticationError(message, NoId)]

\* new ApiKeyAuth(apiKey)
ApiKeyAuth_NoLengthCheck(cred) ==
    IF Falsy(cred) THEN ConstructorThrew("REVX_API_KEY is required")
    ELSE IF cred.type # "string" THEN ConstructorThrew("REVX_API_KEY must be a string")
    ELSE IF ~StartsWith(cred.str, REVX_API_KEY_PREFIX)
      THEN ConstructorThrew("REVX_API_KEY format not valid: wrong prefix")
    ELSE Constructed(cred.str)

ApiKeyAuth(cred) ==
    IF Falsy(cred) THEN ConstructorThrew("REVX_API_KEY is required")
    ELSE IF cred.type # "string" THEN ConstructorThrew("REVX_API_KEY must be a string")
    ELSE IF ~StartsWith(cred.str, REVX_API_KEY_PREFIX)
      THEN ConstructorThrew("REVX_API_KEY format not valid: wrong prefix")
    ELSE IF Len(cred.str) < Len(REVX_API_KEY_PREFIX) + MinKeyIdLen
      THEN ConstructorThrew("REVX_API_KEY format not valid: key is too short")
    ELSE Constructed(cred.str)

\* ApiKeyAuth.getHeaders()
getHeaders(a) == [h \in {"revx-api-key"} |-> a.apiKey]

\* --------------------------------------------------------- client options
\* options.telemetry?.enabled as the caller wrote it
TelemetryChoices == {"undefined", "true", "false"}

NoHeaders == [h \in {} |-> ""]
\* options.headers a caller may supply: none, an extra header, a header named
\* like a fixed one, a header named like the authentication header
UserHeaders == {NoHeaders,
                [h \in {"X-Tenant"} |-> "acme"],
                [h \in {"User-Agent"} |-> "my-app/2.0"],
                [h \in {"revx-api-key"} |-> <<"o", "t", "h", "e", "r">>]}

MkOptions(telemetryEnabled, headers) ==
    [telemetryEnabled |-> telemetryEnabled, headers |-> headers]

\* this.enabled = options?.enabled ?? false, in the Telemetry constructor
TelemetryEnabled_DefaultOn(opts) == opts.telemetryEnabled # "false"

TelemetryEnabled(opts) ==
    IF opts.telemetryEnabled = "undefined" THEN FALSE
    ELSE opts.telemetryEnabled = "true"

\* { ...a, ...b }: the entries of b replace those of a
Spread(a, b) == [h \in DOMAIN a \cup DOMAIN b |-> IF h \in DOMAIN b THEN b[h] ELSE a[h]]

FixedHeaders ==
    [h \in {"Content-Type", "Accept", "User-Agent"} |->
       IF h = "User-Agent" THEN "revmax-node/1.0.0" ELSE "application/json"]

\* the headers given to axios.create in the ApiClient constructor
DefaultHeaders(opts, a) ==
    Spread(Spread(FixedHeaders, opts.headers), getHeaders(a))

\* the headers of the attempt call c has in flight: the instance defaults and
\* the X-Request-ID the request interceptor added
SentHeaders(c) ==
    Spread(DefaultHeaders(options, auth), [h \in {"X-Request-ID"} |-> reqId[c]])

\* ------------------------------------------------------------ the executor
SuccessStatuses == {200}

\* the request interceptor: a new X-Request-ID, then Telemetry.startRequest
Send_ReuseId(c, o, draw) ==
    LET id == IF reqId[c] # NoId THEN reqId[c] ELSE nextId
    IN  /\ reqId' = [reqId EXCEPT ![c] = id]
        /\ nextId' = nextId + 1
        /\ startRequest(ToUpperCase("get"), Url(o), id, draw)
        /\ isTracked' = [isTracked EXCEPT ![c] = shouldCollect(draw)]
        /\ attempts' = [attempts EXCEPT ![c] = @ + 1]
        /\ pc' = [pc EXCEPT ![c] = "attempting"]

Send_Blocking(c, o, draw) ==
    /\ \A d \in Calls : pc[d] # "waiting" \/ d = c
    /\ reqId' = [reqId EXCEPT ![c] = nextId]
    /\ nextId' = nextId + 1
    /\ startRequest(ToUpperCase("get"), Url(o), nextId, draw)
    /\ isTracked' = [isTracked EXCEPT ![c] = shouldCollect(draw)]
    /\ attempts' = [attempts EXCEPT ![c] = @ + 1]
    /\ pc' = [pc EXCEPT ![c] = "attempting"]

Send(c, o, draw) ==
    /\ reqId' = [reqId EXCEPT ![c] = nextId]
    /\ nextId' = nextId + 1
    /\ startRequest(ToUpperCase("get"), Url(o), nextId, draw)
    /\ isTracked' = [isTracked EXCEPT ![c] = shouldCollect(draw)]
    /\ attempts' = [attempts EXCEPT ![c] = @ + 1]
    /\ pc' = [pc EXCEPT ![c] = "attempting"]

\* a caller starts logical call c: ApiClient.request enters its loop (retry = 0)
\* and sends the first attempt, or skips the loop when retries < 0
StartCall(c, o, draw) ==
    /\ pc[c] = "idle"
    /\ op' = [op EXCEPT ![c] = o]
    /\ retry' = [retry EXCEPT ![c] = 0]
    /\ lastCall' = "request"
    /\ IF 0 <= retries
         THEN /\ Send(c, o, draw)
              /\ UNCHANGED <<result, clientVars>>
         ELSE /\ Raise(c, o, ParseApiError(lastError[c]))
              /\ pc' = [pc EXCEPT ![c] = "failed"]
              /\ UNCHANGED <<reqId, nextId, isTracked, attempts, teleVars>>
    /\ UNCHANGED <<cfgVars, classVars, lastError, wait, ghostVars, authVars>>

\* the transport answers the attempt of call c with a 2xx response
RespondSuccess(c, status, body, duration) ==
    /\ pc[c] = "attempting"
    /\ IF isTracked[c] /\ reqId[c] # NoId
         THEN /\ endRequest(reqId[c], status, FALSE, "", 0, duration)
              /\ okDone' = okDone + 1
              /\ outcomes' = Tally(outcomes, "ok")
         ELSE UNCHANGED <<teleVars, okDone, outcomes>>
    /\ pc' = [pc EXCEPT ![c] = "success"]
    /\ lastError' = [lastError EXCEPT ![c] = Undefined]
    /\ Return(c, op[c], body)
    /\ lastCall' = "request"
    /\ UNCHANGED <<cfgVars, classVars, op, retry, reqId, isTracked, wait, attempts, nextId,
                   failDone, failNames, authVars>>

\* the transport rejects the attempt of call c with failure f
RespondFailure_FirstError(c, f, duration) ==
    /\ pc[c] = "attempting"
    /\ IF isTracked[c] /\ reqId[c] # NoId
         THEN /\ endRequest(reqId[c], f.status, TRUE, f.name, retry[c], duration)
              /\ failDone' = failDone + 1
              /\ failNames' = failNames \cup {f.name}
              /\ outcomes' = Tally(outcomes, f.name)
         ELSE UNCHANGED <<teleVars, failDone, failNames, outcomes>>
    /\ lastError' = IF lastError[c].defined THEN lastError
                    ELSE [lastError EXCEPT ![c] = Caught(f, reqId[c])]
    /\ IF ShouldRetry(retry[c], f)
         THEN /\ wait' = [wait EXCEPT ![c] = RetryWait(f, retry[c], retryDelay)]
              /\ pc' = [pc EXCEPT ![c] = "waiting"]
              /\ UNCHANGED <<result, clientVars>>
         ELSE /\ Raise(c, op[c], ParseApiError(lastError'[c]))
              /\ pc' = [pc EXCEPT ![c] = "failed"]
              /\ UNCHANGED wait
    /\ lastCall' = "request"
    /\ UNCHANGED <<cfgVars, classVars, op, retry, reqId, isTracked, attempts, nextId, okDone,
                   authVars>>

RespondFailure_TrackedOnly(c, f, duration) ==
    /\ pc[c] = "attempting"
    /\ IF isTracked[c] /\ reqId[c] # NoId
         THEN /\ endRequest(reqId[c], f.status, TRUE, f.name, retry[c], duration)
              /\ failDone' = failDone + 1
              /\ failNames' = failNames \cup {f.name}
              /\ outcomes' = Tally(outcomes, f.name)
         ELSE UNCHANGED <<teleVars, failDone, failNames, outcomes>>
    /\ IF ShouldRetry(retry[c], f) /\ isTracked[c]
         THEN /\ lastError' = [lastError EXCEPT ![c] = Caught(f, reqId[c])]
              /\ wait' = [wait EXCEPT ![c] = RetryWait(f, retry[c], retryDelay)]
              /\ pc' = [pc EXCEPT ![c] = "waiting"]
              /\ UNCHANGED <<result, clientVars>>
         ELSE /\ lastError' = [lastError EXCEPT ![c] = Caught(f, reqId[c])]
              /\ Raise(c, op[c], ParseApiError(lastError'[c]))
              /\ pc' = [pc EXCEPT ![c] = "failed"]
              /\ UNCHANGED wait
    /\ lastCall' = "request"
    /\ UNCHANGED <<cfgVars, classVars, op, retry, reqId, isTracked, attempts, nextId, okDone,
                   authVars>>

RespondFailure(c, f, duration) ==
    /\ pc[c] = "attempting"
    /\ IF isTracked[c] /\ reqId[c] # NoId
         THEN /\ endRequest(reqId[c], f.status, TRUE, f.name, retry[c], duration)
              /\ failDone' = failDone + 1
              /\ failNames' = failNames \cup {f.name}
              /\ outcomes' = Tally(outcomes, f.name)
         ELSE UNCHANGED <<teleVars, failDone, failNames, outcomes>>
    /\ IF ShouldRetry(retry[c], f)
         THEN /\ lastError' = [lastError EXCEPT ![c] = Caught(f, reqId[c])]
              /\ wait' = [wait EXCEPT ![c] = RetryWait(f, retry[c], retryDelay)]
              /\ pc' = [pc EXCEPT ![c] = "waiting"]
              /\ UNCHANGED <<result, clientVars>>
         ELSE /\ lastError' = [lastError EXCEPT ![c] = Caught(f, reqId[c])]
              /\ Raise(c, op[c], ParseApiError(lastError'[c]))
              /\ pc' = [pc EXCEPT ![c] = "failed"]
              /\ UNCHANGED wait
    /\ lastCall' = "request"
    /\ UNCHANGED <<cfgVars, classVars, op, retry, reqId, isTracked, attempts, nextId, okDone,
                   authVars>>

\* the sleep of call c elapses: the loop continues with retry + 1
WaitElapsed_FromFailed(c, draw) ==
    /\ pc[c] \in {"waiting", "failed"}
    /\ retry' = [retry EXCEPT ![c] = @ + 1]
    /\ Send(c, op[c], draw)
    /\ wait' = [wait EXCEPT ![c] = Num(0)]
    /\ lastCall' = "request"
    /\ UNCHANGED <<cfgVars, classVars, op, lastError, result, ghostVars, clientVars, authVars>>

WaitElapsed_Stuck(c, draw) ==
    /\ pc[c] = "waiting"
    /\ wait' = [wait EXCEPT ![c] = Num(0)]
    /\ lastCall' = "request"
    /\ UNCHANGED <<cfgVars, classVars, op, lastError, result, ghostVars, clientVars, authVars,
                   retry, reqId, nextId, teleVars, isTracked, attempts, pc>>

WaitElapsed_SameOrdinal(c, draw) ==
    /\ pc[c] = "waiting"
    /\ retry' = retry
    /\ Send(c, op[c], draw)
    /\ wait' = [wait EXCEPT ![c] = Num(0)]
    /\ lastCall' = "request"
    /\ UNCHANGED <<cfgVars, classVars, op, lastError, result, ghostVars, clientVars, authVars>>

WaitElapsed(c, draw) ==
    /\ pc[c] = "waiting"
    /\ retry' = [retry EXCEPT ![c] = @ + 1]
    /\ Send(c, op[c], draw)
    /\ wait' = [wait EXCEPT ![c] = Num(0)]
    /\ lastCall' = "request"
    /\ UNCHANGED <<cfgVars, classVars, op, lastError, result, ghostVars, clientVars, authVars>>

\* ------------------------------------------------- direct telemetry calls
\* resetTelemetryStats()
ResetStatsCall ==
    /\ resetStats
    /\ okDone' = 0
    /\ failDone' = 0
    /\ failNames' = {}
    /\ outcomes' = EmptyMap
    /\ lastCall' = "resetStats"
    /\ UNCHANGED <<cfgVars, classVars, callVars, nextId, clientVars, authVars>>

\* endRequest called with an identifier that is not in the in-flight table:
\* that of an earlier attempt (old) or one no attempt was given (new)
EndUnknownCall(id, status, hasError, name, retryCount, duration) ==
    /\ id \notin DOMAIN activeRequests
    /\ endRequest(id, status, hasError, name, retryCount, duration)
    /\ lastCall' = IF id >= 1 /\ id < nextId THEN "endRequest:old" ELSE "endRequest:new"
    /\ UNCHANGED <<cfgVars, classVars, callVars, nextId, ghostVars, clientVars, authVars>>

\* ------------------------------------------------ authenticator actions
\* createAuth(apiKey) in the RevMaxClient constructor
Construct ==
    /\ auth.state = "new"
    /\ auth' = ApiKeyAuth(credential)
    /\ UNCHANGED <<cfgVars, classVars, callVars, nextId, teleVars, lastCall, ghostVars,
                   clientVars, credential>>

\* ApiKeyAuth.setVerified(status)
SetVerified(status) ==
    /\ auth.state = "constructed"
    /\ verified' = status
    /\ UNCHANGED <<cfgVars, classVars, callVars, nextId, teleVars, lastCall, ghostVars,
                   orgInfo, lastHandshake, authVars>>

\* ------------------------------------------------------- specifications
InitCalls ==
    /\ pc = [c \in Calls |-> "idle"]
    /\ op = [c \in Calls |-> "get"]
    /\ retry = [c \in Calls |-> 0]
    /\ reqId = [c \in Calls |-> NoId]
    /\ isTracked = [c \in Calls |-> FALSE]
    /\ lastError = [c \in Calls |-> Undefined]
    /\ wait = [c \in Calls |-> Num(0)]
    /\ attempts = [c \in Calls |-> 0]
    /\ result = [c \in Calls |-> NoResult]
    /\ nextId = 1

InitTelemetry ==
    /\ activeRequests = EmptyMap
    /\ requestCount = 0
    /\ successCount = 0
    /\ errorCount = 0
    /\ totalDuration = 0
    /\ errorTypes = EmptyMap
    /\ handlerCalls = 0
    /\ handled = NoMetrics
    /\ lastCall = "none"
    /\ okDone = 0
    /\ failDone = 0
    /\ failNames = {}
    /\ outcomes = EmptyMap

\* no path normalized yet
NoPaths == [calls |-> 0, once |-> <<>>, twice |-> <<>>]
\* no classification under way
NoFacade == [connect |-> NoError, verify |-> NoError]
InitClassify ==
    /\ classInput = Undefined
    /\ classOutput = NoError
    /\ facadeOutput = NoFacade
    /\ pathInput = <<>>
    /\ pathOutput = NoPaths

\* a client constructed with a valid key and any configuration
Init ==
    /\ options \in {MkOptions(t, NoHeaders) : t \in TelemetryChoices}
    /\ retries \in -1..MaxRetries
    /\ retryDelay = DefaultRetryDelay
    /\ enabled = TelemetryEnabled(options)
    /\ sampleRate \in (IF enabled THEN SampleRates ELSE {100})
    /\ InitCalls
    /\ InitTelemetry
    /\ InitClassify
    /\ orgInfo = NoOrg
    /\ verified = FALSE
    /\ lastHandshake = NoOrg
    /\ credential = ValidCredential
    /\ auth = ApiKeyAuth(ValidCredential)

\* one logical call, every transport outcome
Solo == {1}
Next ==
    \/ \E c \in Solo, o \in Ops, draw \in Draws : StartCall(c, o, draw)
    \/ \E c \in Solo, st \in SuccessStatuses, b \in Bodies, d \in 0..MaxDuration :
         RespondSuccess(c, st, b, d)
    \/ \E c \in Solo, f \in Failures, d \in 0..MaxDuration : RespondFailure(c, f, d)
    \/ \E c \in Solo, draw \in Draws : WaitElapsed(c, draw)

Spec == Init /\ [][Next]_vars

\* concurrent logical calls against one recorder, with direct telemetry calls
FailuresConc == {MkFailure(TRUE, 500, NoHeader, FALSE, "AxiosError"),
                 MkFailure(TRUE, 404, NoHeader, FALSE, "AxiosError"),
                 MkFailure(FALSE, NoStatus, NoHeader, FALSE, "")}
BodiesConc == {MkBody(FALSE, TRUE, "org_1", TRUE)}
\* partial and full sampling, and a draw below and above the partial rate
SampleRatesConc == {50, 100}
DrawsConc == {0, 99}
InitConc ==
    /\ options \in {MkOptions(t, NoHeaders) : t \in TelemetryChoices}
    /\ retries \in 0..MaxRetriesConc
    /\ retryDelay = DefaultRetryDelay
    /\ enabled = TelemetryEnabled(options)
    /\ sampleRate \in (IF enabled THEN SampleRatesConc ELSE {100})
    /\ InitCalls
    /\ InitTelemetry
    /\ InitClassify
    /\ orgInfo = NoOrg
    /\ verified = FALSE
    /\ lastHandshake = NoOrg
    /\ credential = ValidCredential
    /\ auth = ApiKeyAuth(ValidCredential)

NextConc ==
    \/ \E c \in Calls, draw \in DrawsConc : StartCall(c, "get", draw)
    \/ \E c \in Calls, st \in SuccessStatuses, b \in BodiesConc :
         RespondSuccess(c, st, b, MaxDuration)
    \/ \E c \in Calls, f \in FailuresConc : RespondFailure(c, f, MaxDuration)
    \/ \E c \in Calls, draw \in DrawsConc : WaitElapsed(c, draw)
    \/ ResetStatsCall
    \/ \E id \in {1, nextId}, e \in BOOLEAN :
         EndUnknownCall(id, IF e THEN 500 ELSE 200, e, "Error", 0, MaxDuration)

SpecConc == InitConc /\ [][NextConc]_vars

\* a transport that fails with status 500 on every attempt
Failures500 == {MkFailure(TRUE, 500, NoHeader, FALSE, "AxiosError")}
Next500 ==
    \/ \E c \in Calls, o \in Ops, draw \in Draws : StartCall(c, o, draw)
    \/ \E c \in Calls, f \in Failures500, d \in 0..MaxDuration : RespondFailure(c, f, d)
    \/ \E c \in Calls, draw \in Draws : WaitElapsed(c, draw)

Spec500 == Init /\ [][Next500]_vars

\* construction of the authenticator from any credential
InitAuth ==
    /\ options = MkOptions("undefined", NoHeaders)
    /\ retries = 0
    /\ retryDelay = DefaultRetryDelay
    /\ enabled = TelemetryEnabled(options)
    /\ sampleRate = 100
    /\ InitCalls
    /\ InitTelemetry
    /\ InitClassify
    /\ orgInfo = NoOrg
    /\ verified = FALSE
    /\ lastHandshake = NoOrg
    /\ credential \in Credentials
    /\ auth = NotConstructed

NextAuth ==
    \/ Construct
    \/ \E b \in BOOLEAN : SetVerified(b)

SpecAuth == InitAuth /\ [][NextAuth]_vars

\* the classifier and the catch blocks of the facade, on any caught error
ClassFailures ==
    NetworkFailures
    \cup {[MkFailure(TRUE, st, h, e, n) EXCEPT !.dataMessage = dm, !.dataCode = dc,
                                               !.dataRequestId = di] :
            st \in StatusCodes, h \in RetryAfterHeaders, e \in BOOLEAN,
            n \in {"AxiosError", ""}, dm \in {"", "Server says no"},
            dc \in {"", "E42"}, di \in {NoId, 900}}
ClassInputs == {Undefined} \cup {Caught(f, id) : f \in ClassFailures, id \in {NoId, 7}}

\* throw parseApiError(lastError) in ApiClient.request
Classify ==
    /\ classOutput = NoError
    /\ classOutput' = ParseApiError(classInput)
    /\ UNCHANGED <<cfgVars, callVars, nextId, teleVars, lastCall, ghostVars,
                   clientVars, authVars, classInput, facadeOutput, pathInput, pathOutput>>

\* connect() catches what the executor threw
ConnectCatches ==
    /\ classOutput # NoError
    /\ facadeOutput.connect = NoError
    /\ facadeOutput' = [facadeOutput EXCEPT !.connect = connectCatch(classOutput)]
    /\ UNCHANGED <<cfgVars, callVars, nextId, teleVars, lastCall, ghostVars,
                   clientVars, authVars, classInput, classOutput, pathInput, pathOutput>>

\* verifyApiKey() catches what the executor threw
VerifyCatches ==
    /\ classOutput # NoError
    /\ facadeOutput.verify = NoError
    /\ facadeOutput' = [facadeOutput EXCEPT !.verify = verifyCatch(classOutput)]
    /\ UNCHANGED <<cfgVars, callVars, nextId, teleVars, lastCall, ghostVars,
                   clientVars, authVars, classInput, classOutput, pathInput, pathOutput>>

InitClassifier ==
    /\ options = MkOptions("undefined", NoHeaders)
    /\ retries = 0
    /\ retryDelay = DefaultRetryDelay
    /\ enabled = TelemetryEnabled(options)
    /\ sampleRate = 100
    /\ InitCalls
    /\ InitTelemetry
    /\ classInput \in ClassInputs
    /\ classOutput = NoError
    /\ facadeOutput = NoFacade
    /\ pathInput = <<>>
    /\ pathOutput = NoPaths
    /\ orgInfo = NoOrg
    /\ verified = FALSE
    /\ lastHandshake = NoOrg
    /\ credential = ValidCredential
    /\ auth = ApiKeyAuth(ValidCredential)

NextClassify ==
    \/ Classify
    \/ ConnectCatches
    \/ VerifyCatches

SpecClassify == InitClassifier /\ [][NextClassify]_vars

\* two handshakes (connect, verifyApiKey) against one client
FailuresHandshake == {MkFailure(TRUE, 500, NoHeader, FALSE, "AxiosError"),
                      MkFailure(TRUE, 401, NoHeader, FALSE, "AxiosError"),
                      MkFailure(TRUE, 429, NoHeader, FALSE, "AxiosError"),
                      MkFailure(TRUE, 422, NoHeader, TRUE, "AxiosError"),
                      MkFailure(FALSE, NoStatus, NoHeader, FALSE, "Error")}
InitHandshake ==
    /\ options = MkOptions("undefined", NoHeaders)
    /\ retries \in 0..MaxRetriesConc
    /\ retryDelay = DefaultRetryDelay
    /\ enabled = TelemetryEnabled(options)
    /\ sampleRate = 100
    /\ InitCalls
    /\ InitTelemetry
    /\ InitClassify
    /\ orgInfo = NoOrg
    /\ verified = FALSE
    /\ lastHandshake = NoOrg
    /\ credential = ValidCredential
    /\ auth = ApiKeyAuth(ValidCredential)

NextHandshake ==
    \/ \E c \in Calls, o \in Ops : StartCall(c, o, 0)
    \/ \E c \in Calls, st \in SuccessStatuses, b \in Bodies : RespondSuccess(c, st, b, 0)
    \/ \E c \in Calls, f \in FailuresHandshake : RespondFailure(c, f, 0)
    \/ \E c \in Calls : WaitElapsed(c, 0)

SpecHandshake == InitHandshake /\ [][NextHandshake]_vars

\* one logical call whose attempts are all answered and whose waits all elapse
Answer(c) ==
    \/ \E st \in SuccessStatuses, b \in Bodies, d \in 0..MaxDuration :
         RespondSuccess(c, st, b, d)
    \/ \E f \in Failures, d \in 0..MaxDuration : RespondFailure(c, f, d)
Elapse(c) == \E draw \in Draws : WaitElapsed(c, draw)

SpecLive ==
    /\ Init
    /\ [][Next]_vars
    /\ \A c \in Solo : WF_vars(Answer(c)) /\ WF_vars(Elapse(c))

\* one logical call of a client built with user-supplied static headers
FailuresHeaders == {MkFailure(TRUE, 503, NoHeader, FALSE, "AxiosError"),
                    MkFailure(TRUE, 404, NoHeader, FALSE, "AxiosError")}
InitHeaders ==
    /\ options \in {MkOptions("true", h) : h \in UserHeaders}
    /\ retries \in 0..MaxRetries
    /\ retryDelay = DefaultRetryDelay
    /\ enabled = TelemetryEnabled(options)
    /\ sampleRate = 100
    /\ InitCalls
    /\ InitTelemetry
    /\ InitClassify
    /\ orgInfo = NoOrg
    /\ verified = FALSE
    /\ lastHandshake = NoOrg
    /\ credential = ValidCredential
    /\ auth = ApiKeyAuth(ValidCredential)

NextHeaders ==
    \/ \E c \in Solo, o \in Ops, draw \in Draws : StartCall(c, o, draw)
    \/ \E c \in Solo, st \in SuccessStatuses, b \in Bodies, d \in 0..MaxDuration :
         RespondSuccess(c, st, b, d)
    \/ \E c \in Solo, f \in FailuresHeaders, d \in 0..MaxDuration :
         RespondFailure(c, f, d)
    \/ \E c \in Solo, draw \in Draws : WaitElapsed(c, draw)

SpecHeaders == InitHeaders /\ [][NextHeaders]_vars

\* two logical calls given the same transport outcomes, the first with the
\* lowest random draw and the second with the highest: call 1 takes a step
\* when both have come equally far, and call 2 then takes the same step
InStep == pc[1] = pc[2] /\ attempts[1] = attempts[2]
LowDraw == 0
HighDraw == 99

LeaderStart == InStep /\ StartCall(1, "get", LowDraw)
LeaderSuccess ==
    /\ InStep
    /\ \E st \in SuccessStatuses, b \in Bodies, d \in 0..MaxDuration :
         RespondSuccess(1, st, b, d)
LeaderFailure ==
    /\ InStep
    /\ \E f \in Failures, d \in 0..MaxDuration : RespondFailure(1, f, d)
LeaderElapse == InStep /\ WaitElapsed(1, LowDraw)

\* call 2 is given what call 1 was given last
Follow ==
    /\ ~InStep
    /\ IF pc[2] = "idle" THEN StartCall(2, "get", HighDraw)
       ELSE IF pc[2] = "waiting" THEN WaitElapsed(2, HighDraw)
       ELSE IF pc[1] = "success"
         THEN \E st \in SuccessStatuses, d \in 0..MaxDuration :
                RespondSuccess(2, st, result[1].body, d)
         ELSE \E d \in 0..MaxDuration : RespondFailure(2, lastError[1].failure, d)

InitTwin ==
    /\ options \in {MkOptions(t, NoHeaders) : t \in TelemetryChoices}
    /\ retries \in -1..MaxRetries
    /\ retryDelay = DefaultRetryDelay
    /\ enabled = TelemetryEnabled(options)
    /\ sampleRate \in (IF enabled THEN SampleRates ELSE {100})
    /\ InitCalls
    /\ InitTelemetry
    /\ InitClassify
    /\ orgInfo = NoOrg
    /\ verified = FALSE
    /\ lastHandshake = NoOrg
    /\ credential = ValidCredential
    /\ auth = ApiKeyAuth(ValidCredential)

NextTwin ==
    \/ LeaderStart
    \/ LeaderSuccess
    \/ LeaderFailure
    \/ LeaderElapse
    \/ Follow

SpecTwin == InitTwin /\ [][NextTwin]_vars

\* the recorder driven through its public methods, with any arguments
\* Telemetry.startRequest(method, path, requestId)
StartRequestCall(draw) ==
    /\ nextId <= MaxRequests
    /\ startRequest(ToUpperCase("get"), Url("get"), nextId, draw)
    /\ nextId' = nextId + 1
    /\ lastCall' = "startRequest"
    /\ UNCHANGED <<cfgVars, classVars, callVars, ghostVars, clientVars, authVars>>

\* Telemetry.endRequest(requestId, statusCode, error, retryCount) for a request
\* that is in the in-flight table
EndTrackedCall(id, status, hasError, name, retryCount, duration) ==
    /\ id \in DOMAIN activeRequests
    /\ endRequest(id, status, hasError, name, retryCount, duration)
    /\ lastCall' = "endRequest"
    /\ UNCHANGED <<cfgVars, classVars, callVars, nextId, ghostVars, clientVars, authVars>>

\* statusCode arguments of endRequest: undefined, 2xx, 4xx, 5xx
EndStatuses == {NoStatus, 200, 404, 500}

InitRecorder ==
    /\ options = MkOptions("true", NoHeaders)
    /\ retries = 0
    /\ retryDelay = DefaultRetryDelay
    /\ enabled = TelemetryEnabled(options)
    /\ sampleRate \in SampleRatesConc
    /\ InitCalls
    /\ InitTelemetry
    /\ InitClassify
    /\ orgInfo = NoOrg
    /\ verified = FALSE
    /\ lastHandshake = NoOrg
    /\ credential = ValidCredential
    /\ auth = ApiKeyAuth(ValidCredential)

NextRecorder ==
    \/ \E draw \in DrawsConc : StartRequestCall(draw)
    \/ \E id \in 1..MaxRequests, st \in EndStatuses, e \in BOOLEAN,
          k \in {0, MaxRetriesConc} :
         \E n \in (IF e THEN {"AxiosError", ""} ELSE {""}) :
           EndTrackedCall(id, st, e, n, k, MaxDuration)
    \/ ResetStatsCall

SpecRecorder == InitRecorder /\ [][NextRecorder]_vars

\* Telemetry.normalizePath on any path
UuidText ==
    <<"1", "2", "3", "e", "4", "5", "6", "7", "-", "e", "8", "9", "b",
    "-", "1", "2", "d", "3", "-", "a", "4", "5", "6", "-", "4", "2", "6",
    "6", "1", "4", "1", "7", "4", "0", "0", "0">>
PathSegments == {<<"c", "u", "s", "t", "o", "m", "e", "r", "s">>, <<"4", "8", "2", "1">>,
                 UuidText, UuidText \o <<"x", "y", "z">>, <<"v", "2">>,
                 <<"0", "0", "7">>}
RECURSIVE PathsOf(_)
PathsOf(n) ==
    IF n = 0 THEN {<<>>}
    ELSE {<<"/">> \o seg \o rest : seg \in PathSegments, rest \in PathsOf(n - 1)}
\* paths of 1..MaxSegments segments, with and without the leading slash, and ''
PathInputs ==
    LET rooted == UNION {PathsOf(n) : n \in 1..MaxSegments}
    IN  rooted \cup {Tail(p) : p \in rooted} \cup {<<>>}

NormalizeCall ==
    /\ pathOutput.calls = 0
    /\ pathOutput' = [calls |-> 1, once |-> normalizePath(pathInput), twice |-> <<>>]
    /\ UNCHANGED <<cfgVars, callVars, nextId, teleVars, lastCall, ghostVars,
                   clientVars, authVars, classInput, classOutput, facadeOutput,
                   pathInput>>

\* normalizePath applied to its own result
NormalizeAgain ==
    /\ pathOutput.calls = 1
    /\ pathOutput' = [pathOutput EXCEPT !.calls = 2,
                                        !.twice = normalizePath(pathOutput.once)]
    /\ UNCHANGED <<cfgVars, callVars, nextId, teleVars, lastCall, ghostVars,
                   clientVars, authVars, classInput, classOutput, facadeOutput,
                   pathInput>>

InitPath ==
    /\ options = MkOptions("undefined", NoHeaders)
    /\ retries = 0
    /\ retryDelay = DefaultRetryDelay
    /\ enabled = TelemetryEnabled(options)
    /\ sampleRate = 100
    /\ InitCalls
    /\ InitTelemetry
    /\ classInput = Undefined
    /\ classOutput = NoError
    /\ facadeOutput = NoFacade
    /\ pathInput \in PathInputs
    /\ pathOutput = NoPaths
    /\ orgInfo = NoOrg
    /\ verified = FALSE
    /\ lastHandshake = NoOrg
    /\ credential = ValidCredential
    /\ auth = ApiKeyAuth(ValidCredential)

NextPath ==
    \/ NormalizeCall
    \/ NormalizeAgain

SpecPath == InitPath /\ [][NextPath]_vars

\* ------------------------------------------------------------------ claims

\* C1: whenever the GET /verify of connect() fails with HTTP status 401,
\* connect() rejects with an Authentication error (RevMaxAuthenticationError),
\* never with an Initialization error.
C1_Connect401IsAuthentication ==
    \A c \in Calls :
      (op[c] = "connect" /\ pc[c] = "failed" /\ lastError[c].defined
         /\ lastError[c].failure.status = 401)
        => result[c].error.kind = "RevMaxAuthenticationError"

\* C2: with retries = N >= 0 and a transport that fails with status 500 on
\* every attempt, a logical call makes exactly N + 1 attempts and then fails
\* with a RevMaxApiError whose statusCode is 500.
C2_Always500 ==
    \A c \in Calls :
      /\ retries >= 0 => attempts[c] <= retries + 1
      /\ (pc[c] = "failed" /\ retries >= 0) => attempts[c] = retries + 1
      /\ (pc[c] = "failed" /\ retries >= 0 /\ op[c] = "get")
           => /\ result[c].type = "error"
              /\ result[c].error.kind = "RevMaxApiError"
              /\ result[c].error.statusCode = 500
C2_Witness ==
    \E c \in Calls :
      /\ pc[c] = "failed" /\ op[c] = "get" /\ retries = 2 /\ attempts[c] = 3
      /\ result[c].error.kind = "RevMaxApiError" /\ result[c].error.statusCode = 500

\* C3: a failed attempt is followed by another attempt only if its failure is
\* retryable (status 429, status 500..599, or no response) and budget remains;
\* such failures are retried up to the budget, and a failure with any other
\* status ends the logical call after that attempt whatever budget remains.
C3_Retryable(f) ==
    \/ ~f.hasResponse
    \/ f.status = 429
    \/ f.status \in 500..599
C3_RetryOnlyTransient ==
    \A c \in Calls :
      /\ pc[c] = "waiting"
           => /\ lastError[c].defined
              /\ C3_Retryable(lastError[c].failure)
              /\ retry[c] < retries
      /\ (pc[c] = "attempting" /\ retry[c] > 0)
           => /\ lastError[c].defined
              /\ C3_Retryable(lastError[c].failure)
              /\ retry[c] <= retries
      /\ (pc[c] = "failed" /\ lastError[c].defined)
           => /\ ~(C3_Retryable(lastError[c].failure) /\ retry[c] < retries)
              /\ attempts[c] = retry[c] + 1
C3_Witness ==
    \E c \in Calls :
      /\ pc[c] = "failed" /\ retries = 2 /\ retry[c] = 1 /\ attempts[c] = 2
      /\ lastError[c].defined /\ lastError[c].failure.status = 404

\* C4: for every configured retries value, the only thing a logical call that
\* does not succeed raises to the caller of ApiClient.request/get is a typed
\* error (a RevMaxError kind), never an untyped exception.
C4_OnlyTypedErrors ==
    \A c \in Calls :
      (op[c] = "get" /\ result[c].type = "error")
        => InstanceOf(result[c].error.kind, "RevMaxError")

\* C5: when an attempt fails with status 429 carrying a retry-after header of
\* n seconds and retry budget remains, the wait before the next attempt is
\* n * 1000 ms (5000 ms for retry-after: 5).
C5_RetryAfterWait ==
    \A c \in Calls, n \in RetryAfterSecs :
      (pc[c] = "waiting" /\ lastError[c].defined
         /\ lastError[c].failure.status = 429
         /\ lastError[c].failure.retryAfter = IntToStr(n))
        => wait[c] = Num(n * 1000)
C5_Witness ==
    \E c \in Calls :
      /\ pc[c] = "waiting"
      /\ lastError[c].failure.status = 429
      /\ lastError[c].failure.retryAfter = <<"5">>
      /\ wait[c] = Num(5000)

\* the calls whose current attempt is tracked and has not completed
InFlightTracked == {c \in Calls : pc[c] = "attempting" /\ isTracked[c]}

\* C6: in every reachable state, under any interleaving of concurrent logical
\* calls and their retries, activeRequests holds exactly one entry for each
\* tracked attempt that has started and not yet completed and no other entry,
\* and requestCount since the last reset equals the number of tracked
\* attempts completed since then.
C6_InFlightTable ==
    /\ DOMAIN activeRequests = {reqId[c] : c \in InFlightTracked}
    /\ Cardinality(DOMAIN activeRequests) = Cardinality(InFlightTracked)
    /\ \A id \in DOMAIN activeRequests : activeRequests[id].requestId = id
    /\ requestCount = okDone + failDone
C6_Witness ==
    /\ Cardinality(InFlightTracked) = 2
    /\ Cardinality(DOMAIN activeRequests) = 2
    /\ requestCount = 2
    /\ \E c \in Calls : retry[c] > 0

\* C7: endRequest called with a request identifier that is not in the
\* in-flight table changes nothing: the counters, the error histogram and the
\* in-flight table are unchanged and the handler is not invoked.
C7_EndUnknownIsNoOp ==
    [][lastCall' \in {"endRequest:old", "endRequest:new"} => UNCHANGED teleVars]_vars
C7_Witness ==
    /\ lastCall = "endRequest:old"
    /\ enabled /\ sampleRate = 100
    /\ requestCount > 0
    /\ activeRequests # EmptyMap

RECURSIVE SumCounts(_)
SumCounts(m) ==
    IF DOMAIN m = {} THEN 0
    ELSE LET k == CHOOSE x \in DOMAIN m : TRUE
         IN  m[k] + SumCounts(MapDelete(m, k))

\* C8: after s tracked successful and f tracked failed completions since the
\* recorder was fresh, getStats() reports requestCount = s + f, successCount
\* = s, errorCount = f, successRate = s / (s + f), and errorBreakdown counts
\* summing to f with one key per distinct failing kind; one success and one
\* failure give 2, 1, 1, 0.5 and one errorBreakdown entry with count 1.
C8_StatsMatchOutcomes ==
    LET st == getStats
    IN  /\ st.requestCount = okDone + failDone
        /\ st.successCount = okDone
        /\ st.errorCount = failDone
        /\ okDone + failDone > 0
             => RatioEq(st.successRate, Ratio(okDone, okDone + failDone))
        /\ SumCounts(st.errorBreakdown) = failDone
        /\ Cardinality(DOMAIN st.errorBreakdown) = Cardinality(failNames)
        /\ (okDone = 1 /\ failDone = 1)
             => /\ st.requestCount = 2 /\ st.successCount = 1 /\ st.errorCount = 1
                /\ RatioEq(st.successRate, Ratio(1, 2))
                /\ Cardinality(DOMAIN st.errorBreakdown) = 1
                /\ \A k \in DOMAIN st.errorBreakdown : st.errorBreakdown[k] = 1
C8_Witness ==
    /\ okDone = 1 /\ failDone = 1
    /\ getStats.requestCount = 2
    /\ failNames = {"AxiosError"}

\* the statistics of a recorder that has completed nothing
C9_Fresh(st) ==
    /\ st.requestCount = 0 /\ st.successCount = 0 /\ st.errorCount = 0
    /\ RatioEq(st.successRate, Ratio(1, 1))
    /\ RatioEq(st.averageDuration, Ratio(0, 1))
    /\ st.errorBreakdown = EmptyMap

\* C9: getStats() on a freshly constructed recorder, and getStats()
\* immediately after resetStats() following any prior activity, return
\* requestCount 0, successCount 0, errorCount 0, successRate 1,
\* averageDuration 0 and an empty errorBreakdown.
C9_FreshAfterReset ==
    lastCall \in {"none", "resetStats"} => C9_Fresh(getStats)
C9_Witness ==
    /\ lastCall = "resetStats"
    /\ handlerCalls >= 2
    /\ activeRequests # EmptyMap

\* a credential the constructor must refuse: missing, empty, not a string,
\* without the prefix, or shorter than the prefix plus 16 characters
C10_Refused(cred) ==
    \/ cred.type # "string"
    \/ cred.str = <<>>
    \/ ~StartsWith(cred.str, REVX_API_KEY_PREFIX)
    \/ Len(cred.str) < Len(REVX_API_KEY_PREFIX) + MinKeyIdLen

C11_BadBodyIsInitialization ==
    \A c \in Calls :
      (op[c] = "connect" /\ pc[c] = "success")
        => /\ result[c].type = "client"
                => lastHandshake.id # "" /\ lastHandshake.hasName
           /\ result[c].type = "error"
                => /\ result[c].error.kind = "RevMaxInitializationError"
                   /\ orgInfo = NoOrg /\ ~verified

\* C12: whenever connect() fails for a reason other than an HTTP 401 (5xx,
\* 429, another 4xx, no response, an unusable response body), it rejects with
\* a RevMaxInitializationError.
C12_ConnectFailureIsInitialization ==
    \A c \in Calls :
      (op[c] = "connect" /\ result[c].type = "error"
         /\ ~(lastError[c].defined /\ lastError[c].failure.status = 401))
        => result[c].error.kind = "RevMaxInitializationError"
C12_Witness ==
    \E c \in Calls :
      /\ op[c] = "connect" /\ pc[c] = "failed" /\ attempts[c] = 2
      /\ lastError[c].failure.status = 429
      /\ result[c].error.kind = "RevMaxInitializationError"

\* C13: getOrganization() throws in every state in which no connect() or
\* verifyApiKey() has completed successfully, and otherwise returns the
\* organization delivered by the most recent successful handshake; a
\* successful connect() resolves to the client it was called on.
C13_GetOrganization ==
    /\ (\A c \in Calls : result[c].type \notin {"client", "org"})
         => getOrganization.type = "error"
    /\ IF lastHandshake = NoOrg
         THEN getOrganization.type = "error"
         ELSE getOrganization = ReturnedOrg(lastHandshake)
    /\ \A c \in Calls :
         (op[c] = "connect" /\ result[c].type \notin {"none", "error"})
           => result[c] = ReturnedClient
C13_Witness ==
    \E c, d \in Calls :
      /\ op[c] = "connect" /\ result[c] = ReturnedClient
      /\ op[d] = "verify" /\ result[d].type = "org" /\ result[d].body.orgId = "org_2"
      /\ lastHandshake.id = "org_1"
      /\ getOrganization.body.orgId = "org_1"

\* the positions at which a logical call has ended
Terminal == {"success", "failed"}
\* the steps of one logical call: Init -> Attempting -> {Success, Retrying ->
\* Attempting, Failed}
C14_Edges == {<<"idle", "attempting">>, <<"attempting", "success">>,
              <<"attempting", "waiting">>, <<"waiting", "attempting">>,
              <<"attempting", "failed">>}

C15_Terminates ==
    \A c \in Solo : (pc[c] \in {"attempting", "waiting"}) ~> (pc[c] \in Terminal)
C15_Witness ==
    \E c \in Solo :
      /\ retries = MaxRetries /\ pc[c] = "failed" /\ attempts[c] = MaxRetries + 1
      /\ lastError[c].failure.status = 503

\* C16: for a failure with status 429 the classifier returns a RateLimit
\* error whose retryAfter is the number of seconds parsed from the
\* retry-after response header, and exactly 0 whenever that header is absent
\* or not parseable as a number.
C16_RateLimitRetryAfter ==
    (classOutput # NoError /\ classInput.defined
       /\ classInput.failure.hasResponse /\ classInput.failure.status = 429)
      => /\ classOutput.kind = "RevMaxRateLimitError"
         /\ classOutput.hasRetryAfter
         /\ classOutput.retryAfter =
              (IF \E n \in RetryAfterSecs : classInput.failure.retryAfter = IntToStr(n)
                 THEN Num(CHOOSE n \in RetryAfterSecs :
                            classInput.failure.retryAfter = IntToStr(n))
                 ELSE Num(0))

\* C17: parseApiError is a total function of (status code, presence of an
\* errors payload): 401 -> Authentication; 429 -> RateLimit; 422 with an
\* errors payload -> Validation carrying that field-error map; any other
\* present status (404, 422 without errors, ...) -> generic API error carrying
\* the status code and the server's error code; no status -> plain
\* RevMaxError.  Exactly one kind results for every input.
C17_Classification ==
    (classOutput # NoError /\ classInput.defined)
      => LET f == classInput.failure
             e == classOutput
         IN  /\ e.kind \in ErrorKinds
             /\ IF ~f.hasResponse THEN e.kind = "RevMaxError"
                ELSE IF f.status = 401 THEN e.kind = "RevMaxAuthenticationError"
                ELSE IF f.status = 429 THEN e.kind = "RevMaxRateLimitError"
                ELSE IF f.status = 422 /\ f.hasErrors
                  THEN /\ e.kind = "RevMaxValidationError"
                       /\ e.validationErrors = FieldErrors
                ELSE /\ e.kind = "RevMaxApiError"
                     /\ e.statusCode = f.status
                     /\ e.errorCode = f.dataCode
C17_Witness ==
    /\ classInput.defined /\ classInput.failure.status = 422
    /\ classInput.failure.hasErrors
    /\ classOutput.kind = "RevMaxValidationError"
    /\ classOutput.validationErrors = FieldErrors

\* C18: every error raised to a caller by the executor or by connect() /
\* verifyApiKey() has a non-empty message, and every error the classifier
\* produces carries a request identifier: the failed attempt's X-Request-ID,
\* else the one in the response body, else the literal unknown; never an
\* empty or undefined one.
C18_MessageAndRequestId ==
    /\ classOutput # NoError => classOutput.message # ""
    /\ facadeOutput.connect # NoError
         => facadeOutput.connect.message # "" /\ facadeOutput.connect.requestId # NoId
    /\ facadeOutput.verify # NoError => facadeOutput.verify.message # ""
    /\ (classOutput # NoError /\ classInput.defined)
         => LET f == classInput.failure
            IN  /\ classOutput.requestId # NoId
                /\ classOutput.requestId =
                     (IF classInput.configRequestId # NoId
                        THEN classInput.configRequestId
                      ELSE IF f.hasResponse /\ f.dataRequestId # NoId
                        THEN f.dataRequestId
                      ELSE UnknownId)
C18_Witness ==
    /\ classInput.defined /\ classInput.configRequestId = NoId
    /\ classInput.failure.dataRequestId = 900
    /\ classInput.failure.message = "" /\ classInput.failure.dataMessage = ""
    /\ classOutput.requestId = 900
    /\ facadeOutput.connect.requestId = 900
    /\ facadeOutput.verify # NoError

\* C19: telemetry is disabled by default: with a client built without
\* telemetry.enabled = true no attempt is ever tracked (isTracked is false and
\* nothing is stored), the handler is never invoked, and getStats() stays at
\* the fresh-recorder values after any number of requests.
C19_DisabledByDefault ==
    options.telemetryEnabled # "true"
      => /\ \A c \in Calls : ~isTracked[c]
         /\ activeRequests = EmptyMap
         /\ handlerCalls = 0
         /\ C9_Fresh(getStats)
C19_Witness ==
    /\ options.telemetryEnabled = "undefined"
    /\ pc[1] = "success" /\ pc[2] = "failed" /\ attempts[2] = 2
    /\ getStats.requestCount = 0 /\ handlerCalls = 0

\* C20: for every configuration, including any options.headers, every
\* attempt is sent with Content-Type and Accept application/json, the fixed
\* User-Agent 'revmax-node/1.0.0', the single authentication header
\* 'revx-api-key' equal to the credential, and an X-Request-ID; user-supplied
\* headers never replace the authentication header or the fixed user-agent.
C20_FixedHeaders ==
    \A c \in Calls :
      pc[c] = "attempting"
        => LET h == SentHeaders(c)
           IN  /\ h["Content-Type"] = "application/json"
               /\ h["Accept"] = "application/json"
               /\ h["User-Agent"] = "revmax-node/1.0.0"
               /\ h["revx-api-key"] = credential.str
               /\ "X-Request-ID" \in DOMAIN h /\ h["X-Request-ID"] # NoId

\* C21: every physical attempt gets a newly generated request identifier:
\* no two attempts of one logical call and no two attempts of concurrent
\* calls share one, so the key of an in-flight telemetry entry belongs to
\* exactly one attempt (the generator never repeating a value).
C21_FreshRequestId ==
    [][\A c \in Calls :
         attempts'[c] # attempts[c]
           => /\ reqId'[c] # NoId
              /\ reqId'[c] # reqId[c]
              /\ \A d \in Calls : reqId[d] # NoId => reqId'[c] > reqId[d]
              /\ \A id \in DOMAIN activeRequests : reqId'[c] > id
              /\ \A d \in Calls \ {c} : reqId'[d] # reqId'[c]
              /\ \A id \in DOMAIN activeRequests' :
                   Cardinality({d \in Calls : reqId'[d] = id /\ pc'[d] = "attempting"}) = 1]_vars
C21_Witness ==
    /\ \A c \in Calls : pc[c] = "attempting" /\ retry[c] = 1 /\ isTracked[c]
    /\ Cardinality(DOMAIN activeRequests) = 2
    /\ nextId = 5

\* a path segment shaped like a UUID: 8-4-4-4-12 hexadecimal digits
C22_IsUuid(seg) ==
    /\ Len(seg) = 36
    /\ \A i \in 1..36 :
         IF i \in {9, 14, 19, 24} THEN seg[i] = "-" ELSE seg[i] \in HexDigits
\* a path segment made of decimal digits only
C22_IsNumeric(seg) == seg # <<>> /\ \A i \in 1..Len(seg) : seg[i] \in Digits
\* the number of characters of s before its first "/"
RECURSIVE C22_SegLen(_)
C22_SegLen(s) == IF s = <<>> \/ Head(s) = "/" THEN 0 ELSE 1 + C22_SegLen(Tail(s))
\* a rooted path with each UUID-shaped or numeric segment replaced by :id
RECURSIVE C22_Expected(_)
C22_Expected(s) ==
    IF s = <<>> THEN <<>>
    ELSE LET n == C22_SegLen(Tail(s))
             seg == SubSeq(s, 2, n + 1)
         IN  <<"/">>
             \o (IF C22_IsUuid(seg) \/ C22_IsNumeric(seg) THEN <<":", "i", "d">> ELSE seg)
             \o C22_Expected(SubSeq(s, n + 2, Len(s)))

\* C22: normalizePath replaces every UUID-shaped path segment and every
\* purely numeric path segment with ':id' and leaves all other segments
\* unchanged ('/customers/<uuid>' and '/customers/4821' both become
\* '/customers/:id'); applying it twice gives the same as applying it once.
C22_NormalizePath ==
    /\ (pathOutput.calls >= 1 /\ pathInput # <<>>)
         => pathOutput.once =
              C22_Expected(IF Head(pathInput) = "/" THEN pathInput
                           ELSE <<"/">> \o pathInput)
    /\ pathOutput.calls = 2 => pathOutput.twice = pathOutput.once

\* C23: while one logical call sits in its retry wait, every other logical
\* call can still take its next step: an idle call can start its attempt, a
\* call whose attempt is in flight can complete (successfully or not) and, when
\* tracked, have that attempt counted, and a waiting call can resume.
C23_WaitDoesNotBlock ==
    \A c \in Calls :
      pc[c] = "waiting"
        => \A d \in Calls \ {c} :
             /\ pc[d] = "idle"
                  => ENABLED (\E draw \in DrawsConc : StartCall(d, "get", draw))
             /\ pc[d] = "attempting"
                  => /\ ENABLED (/\ \E b \in BodiesConc : RespondSuccess(d, 200, b, MaxDuration)
                                 /\ isTracked[d] => successCount' = successCount + 1)
                     /\ ENABLED (/\ \E f \in FailuresConc : RespondFailure(d, f, MaxDuration)
                                 /\ isTracked[d] => errorCount' = errorCount + 1)
             /\ pc[d] = "waiting"
                  => ENABLED (\E draw \in DrawsConc : WaitElapsed(d, draw))
\* call 1 is waiting to retry while call 2, whose attempt was sent after call
\* 1's, has completed and has been counted
C23_Witness ==
    /\ pc[1] = "waiting"
    /\ pc[2] = "success"
    /\ isTracked[2]
    /\ reqId[2] > reqId[1]
    /\ successCount = 1
    /\ errorCount = 1

\* C24: the verified flag is false after construction, and it is true only if
\* some connect() has completed successfully before, in which case
\* organization information with an identifier is stored; no failed or
\* pending handshake, no verifyApiKey() and no other request sets it.
C24_VerifiedOnlyByConnect ==
    /\ verified
         => /\ \E c \in Calls :
                 op[c] = "connect" /\ pc[c] = "success" /\ result[c] = ReturnedClient
            /\ orgInfo # NoOrg
            /\ orgInfo.id # ""
    /\ (\A c \in Calls : pc[c] = "idle") => ~verified
\* one connect() has succeeded and set the flag; a verifyApiKey() has succeeded
\* as well
C24_Witness ==
    /\ verified
    /\ \E c, d \in Calls :
         /\ op[c] = "connect" /\ result[c] = ReturnedClient
         /\ op[d] = "verify" /\ result[d].type = "org"

\* C25: every RevMaxAuthenticationError, whether produced by the classifier or
\* by a catch block of the facade, carries statusCode 401 and is also an
\* instance of RevMaxApiError.
C25_AuthenticationIsApiError ==
    \A e \in {classOutput, facadeOutput.connect, facadeOutput.verify} :
      e.kind = "RevMaxAuthenticationError"
        => /\ e.statusCode = 401
           /\ InstanceOf(e.kind, "RevMaxApiError")

\* C26: when an attempt with retry ordinal k fails with a retryable failure
\* other than status 429 and retry budget remains, the wait before the next
\* attempt is exactly retryDelay * 2^k, even if the response carries a
\* retry-after header; the header decides the wait only for status 429.
C26_BackoffUnlessRateLimited ==
    \A c \in Calls :
      (pc[c] = "waiting" /\ lastError[c].defined /\ lastError[c].failure.status # 429)
        => wait[c] = Num(retryDelay * Pow2(retry[c]))

\* C27: the success flag of a completed request is (no error) and (no status
\* code or status code < 400); successCount is incremented exactly when the
\* flag is true and errorCount exactly when it is false, for every combination
\* of status code and error, including a status >= 400 without an error.
C27_CountersFollowSuccessFlag ==
    [][handlerCalls' = handlerCalls + 1
         => /\ handled'.success
                 <=> /\ handled'.errorType = ""
                     /\ handled'.statusCode = NoStatus \/ handled'.statusCode < 400
            /\ IF handled'.success
                 THEN successCount' = successCount + 1 /\ errorCount' = errorCount
                 ELSE successCount' = successCount /\ errorCount' = errorCount + 1]_vars

\* C28: within one endRequest for a tracked request the counters are updated
\* first, then the handler is invoked exactly once with the completed metrics,
\* then the entry is removed: when the handler runs, getStats() already
\* includes this request and its entry is still in the in-flight table, and
\* the entry is gone when endRequest returns.
C28_HandlerOrder ==
    [][handlerCalls' # handlerCalls
         => /\ handlerCalls' = handlerCalls + 1
            /\ requestCount' = requestCount + 1
            /\ handled'.seenCount = requestCount'
            /\ handled'.entryPresent
            /\ handled'.requestId \in DOMAIN activeRequests
            /\ DOMAIN activeRequests' = DOMAIN activeRequests \ {handled'.requestId}
            /\ handled'.duration = totalDuration' - totalDuration]_vars
\* the handler has just been invoked for the second completed request while
\* the other call's attempt is still in the table
C28_Witness ==
    /\ handlerCalls = 2
    /\ requestCount = 2
    /\ handled.seenCount = 2
    /\ handled.entryPresent
    /\ handled.requestId \notin DOMAIN activeRequests
    /\ Cardinality(DOMAIN activeRequests) = 1

\* C29: each tracked attempt produces its own record, and the record of the
\* attempt with retry ordinal k carries retryCount = k, whether that attempt
\* failed or succeeded.
C29_RecordCarriesRetryOrdinal ==
    [][\A c \in Calls :
         (pc[c] = "attempting" /\ pc'[c] # "attempting" /\ isTracked[c])
           => /\ handlerCalls' = handlerCalls + 1
              /\ handled'.requestId = reqId[c]
              /\ handled'.retryCount = retry[c]]_vars

\* C30: resetStats() leaves the in-flight table unchanged, so a tracked
\* attempt started before a reset and completing after it is still found by
\* endRequest, invokes the handler and is counted exactly once in the
\* statistics that follow the reset.
C30_ResetKeepsInFlight ==
    [][/\ lastCall' = "resetStats"
            => activeRequests' = activeRequests /\ requestCount' = 0
       /\ \A c \in Calls :
            (pc[c] = "attempting" /\ pc'[c] # "attempting" /\ isTracked[c])
              => /\ reqId[c] \in DOMAIN activeRequests
                 /\ handlerCalls' = handlerCalls + 1
                 /\ handled'.requestId = reqId[c]
                 /\ requestCount' = requestCount + 1
                 /\ successCount' + errorCount' = successCount + errorCount + 1
                 /\ reqId[c] \notin DOMAIN activeRequests']_vars
\* the attempt with identifier 1 was started first, a later attempt completed,
\* the statistics were reset, and then attempt 1 completed: the handler has
\* run twice and the statistics count attempt 1 alone
C30_Witness ==
    /\ handled.requestId = 1
    /\ handlerCalls = 2
    /\ handled.seenCount = 1
    /\ requestCount = 1
    /\ lastCall = "request"
    /\ 1 \notin DOMAIN activeRequests

\* C31: when a logical call fails after several attempts, the error raised is
\* the classification of the last attempt's failure only (500 then 401 yields
\* an Authentication error, 503 then 429 a RateLimit error), and its request
\* identifier is that of the last attempt.
C31_LastFailureClassified ==
    \A c \in Calls :
      (pc[c] = "failed" /\ attempts[c] >= 2)
        => /\ lastError[c].defined
           /\ lastError[c].configRequestId = reqId[c]
           /\ result[c] = Threw(Rethrow(op[c], ParseApiError(lastError[c])))
           /\ op[c] = "get"
                => /\ result[c].error.requestId = reqId[c]
                   /\ lastError[c].failure.status = 401
                        => result[c].error.kind = "RevMaxAuthenticationError"
                   /\ lastError[c].failure.status = 429
                        => result[c].error.kind = "RevMaxRateLimitError"
\* a 503 and then a 429 at budget exhaustion: a RateLimit error with the
\* second attempt's identifier
C31_Witness ==
    \E c \in Calls :
      /\ pc[c] = "failed" /\ op[c] = "get"
      /\ retries = 1 /\ attempts[c] = 2
      /\ lastError[c].failure.status = 429
      /\ result[c].error.kind = "RevMaxRateLimitError"
      /\ result[c].error.requestId = 2

\* C32: if the attempt with ordinal k <= retries is the first to succeed, after
\* k retryable failures, the logical call returns that attempt's response
\* body, has made exactly k + 1 attempts, and raises no error for the earlier
\* failures.
C32_SuccessAfterRetries ==
    \A c \in Calls :
      pc[c] = "success"
        => /\ retry[c] <= retries
           /\ attempts[c] = retry[c] + 1
           /\ op[c] = "get"
                => /\ result[c] = Returned(result[c].body)
                   /\ result[c].body \in Bodies
                   /\ result[c].error = NoError
\* the third attempt succeeds after two failures
C32_Witness ==
    \E c \in Calls :
      /\ pc[c] = "success" /\ op[c] = "get"
      /\ retry[c] = 2 /\ attempts[c] = 3
      /\ result[c] = Returned(MkBody(FALSE, TRUE, "org_1", TRUE))

\* what a caller observes of logical call c: how far it has come, its attempts
\* and waits, and its result or error without the request identifier
C33_Execution(c) ==
    [pc |-> pc[c], retry |-> retry[c], attempts |-> attempts[c], wait |-> wait[c],
     failure |-> lastError[c].failure,
     result |-> [result[c] EXCEPT !.error.requestId = NoId]]
\* the recorder's tables and counters
C33_Recorder == <<activeRequests, requestCount, successCount, errorCount, totalDuration,
                  errorTypes, handlerCalls>>

\* C33: telemetry does not influence request execution. Two logical calls
\* given the same sequence of transport outcomes, whether telemetry is
\* disabled, enabled with the attempt untracked, or enabled with the attempt
\* tracked, perform the same number of attempts with the same waits and end
\* with the same result or error; a step of an untracked attempt adds no
\* in-flight entry, changes no counter and triggers no handler call.
C33_TelemetryDoesNotInterfere ==
    [][/\ InStep' => C33_Execution(1)' = C33_Execution(2)'
       \* given what call 1 was given, call 2 comes exactly as far
       /\ (~InStep /\ pc'[2] # pc[2]) => InStep'
       /\ \A c \in Calls :
            (pc'[c] # pc[c]
               /\ ~(IF pc'[c] = "attempting" THEN isTracked'[c] ELSE isTracked[c]))
              => C33_Recorder' = C33_Recorder]_vars
\* telemetry is enabled; call 1, tracked on both attempts, and call 2, tracked
\* on neither, have both failed on the second attempt
C33_Witness ==
    /\ enabled /\ sampleRate = 50
    /\ pc[1] = "failed" /\ pc[2] = "failed"
    /\ attempts[1] = 2 /\ attempts[2] = 2
    /\ handlerCalls = 2
    /\ isTracked[1] /\ ~isTracked[2]
    /\ result[1].error.requestId # result[2].error.requestId
    /\ C33_Execution(1) = C33_Execution(2)

\* C34: with telemetry enabled the sampling decision respects the boundaries
\* of sampleRate for every random draw in [0, 1): with sampleRate = 1 every
\* attempt is tracked and with sampleRate = 0 no attempt is ever tracked; when
\* telemetry is disabled no attempt is tracked whatever the draw; every attempt
\* still has a request identifier.
C34_SamplingBoundaries ==
    \A c \in Calls :
      attempts[c] >= 1
        => /\ reqId[c] # NoId
           /\ (enabled /\ sampleRate = 100) => isTracked[c]
           /\ (enabled /\ sampleRate = 0) => ~isTracked[c]
           /\ ~enabled => ~isTracked[c]

\* C35: in every reachable state of the recorder, after any interleaving of
\* startRequest, endRequest, getStats and resetStats, requestCount =
\* successCount + errorCount.
C35_CountersAddUp ==
    /\ requestCount = successCount + errorCount
    /\ getStats.requestCount = getStats.successCount + getStats.errorCount
\* three requests completed, one of them with status 404 and no error object
C35_Witness ==
    /\ requestCount = 3 /\ successCount = 2 /\ errorCount = 1
    /\ handled.statusCode = 404 /\ handled.errorType = ""
    /\ lastCall = "endRequest"

\* the sum of the counts of a histogram
RECURSIVE C36_Sum(_)
C36_Sum(types) ==
    IF DOMAIN types = {} THEN 0
    ELSE LET k == CHOOSE x \in DOMAIN types : TRUE
         IN  types[k] + C36_Sum(MapDelete(types, k))

\* C36: in every reachable state of the recorder the counts in the error-kind
\* histogram sum to errorCount, and every key of the histogram has a count of
\* at least 1.
C36_HistogramSumsToErrors ==
    /\ C36_Sum(errorTypes) = errorCount
    /\ \A k \in DOMAIN errorTypes : errorTypes[k] >= 1
    /\ getStats.errorBreakdown = errorTypes
\* two errors of one kind and one of another
C36_Witness ==
    /\ errorCount = 3
    /\ DOMAIN errorTypes = {"AxiosError", "UnknownError"}
    /\ errorTypes["AxiosError"] = 2
    /\ errorTypes["UnknownError"] = 1

\* C37: for every configured retries value, every logical call that has ended
\* has performed at least 1 and at most max(retries, 0) + 1 physical attempts,
\* whatever the transport outcomes were.
C37_AttemptBounds ==
    \A c \in Calls :
      pc[c] \in Terminal
        => /\ attempts[c] >= 1
           /\ attempts[c] <= (IF retries > 0 THEN retries ELSE 0) + 1

\* C38: a connect() or verifyApiKey() that fails (HTTP failure, network
\* failure or malformed response body) leaves the stored organization info and
\* the verified flag exactly as they were, also after an earlier successful
\* connect(); when one of two concurrent handshakes fails and the other
\* succeeds, the client ends with the successful one's organization info.
C38_FailedHandshakeChangesNothing ==
    [][/\ \A c \in Calls :
            (op'[c] \in Handshakes /\ result'[c].type = "error" /\ result[c].type # "error")
              => orgInfo' = orgInfo /\ verified' = verified
       /\ \A c, d \in Calls :
            (/\ op'[c] \in Handshakes /\ result'[c].type = "error"
             /\ op'[d] \in Handshakes /\ result'[d].type \in {"client", "org"})
              => /\ orgInfo' # NoOrg
                 /\ orgInfo' = lastHandshake'
                 /\ result'[d].type = "org" => orgInfo'.id = result'[d].body.orgId
                 /\ verified' = (op'[d] = "connect")]_vars
\* connect() has succeeded and verifyApiKey() has failed: the organization and
\* the flag set by connect() are still there
C38_Witness ==
    \E c, d \in Calls :
      /\ op[c] = "connect" /\ result[c] = ReturnedClient
      /\ op[d] = "verify" /\ pc[d] = "failed" /\ result[d].type = "error"
      /\ verified
      /\ orgInfo.id = "org_1"

\* C39: verifyApiKey() rejects with an Authentication error whenever its GET
\* /verify fails with HTTP 401, rejects with the classifier's typed error
\* unchanged for every other HTTP or network failure, and on success replaces
\* the stored organization info without changing the verified flag.
C39_VerifyApiKey ==
    [][\A c \in Calls :
         op'[c] = "verify"
           => /\ (pc[c] = "attempting" /\ pc'[c] = "failed")
                   => /\ result'[c] = Threw(ParseApiError(lastError'[c]))
                      /\ InstanceOf(result'[c].error.kind, "RevMaxError")
                      /\ lastError'[c].failure.status = 401
                           <=> result'[c].error.kind = "RevMaxAuthenticationError"
              /\ (pc[c] = "attempting" /\ result'[c].type = "org")
                   => /\ orgInfo' = lastHandshake'
                      /\ orgInfo'.id = result'[c].body.orgId
                      /\ verified' = verified]_vars
\* verifyApiKey() has replaced the organization stored by an earlier connect()
\* and the flag is still set
C39_Witness ==
    \E c, d \in Calls :
      /\ op[c] = "connect" /\ result[c] = ReturnedClient
      /\ op[d] = "verify" /\ result[d].type = "org" /\ result[d].body.orgId = "org_2"
      /\ orgInfo.id = "org_2"
      /\ lastHandshake.id = "org_2"
      /\ verified

\* the statistics that a multiset of tracked attempt outcomes determines
C40_Errors(bag) == [n \in DOMAIN bag \ {"ok"} |-> bag[n]]
C40_StatsOf(bag) ==
    [requestCount |-> C36_Sum(bag),
     successCount |-> IF "ok" \in DOMAIN bag THEN bag["ok"] ELSE 0,
     errorCount |-> C36_Sum(C40_Errors(bag)),
     errorBreakdown |->
       [t \in {ErrorType(n) : n \in DOMAIN C40_Errors(bag)} |->
          C36_Sum([n \in {m \in DOMAIN C40_Errors(bag) : ErrorType(m) = t} |-> bag[n]])]]

\* C40: when several logical calls run concurrently against one recorder, the
\* statistics reported by getStats() once all of them have terminated
\* (requestCount, successCount, errorCount, errorBreakdown) are determined by
\* the multiset of outcomes of the tracked attempts counted since the
\* statistics were last reset, whatever the order in which the attempts
\* started and completed, and the in-flight table is then empty.
C40_StatsIndependentOfOrder ==
    (\A c \in Calls : pc[c] \in Terminal)
      => /\ getStats.requestCount = C40_StatsOf(outcomes).requestCount
         /\ getStats.successCount = C40_StatsOf(outcomes).successCount
         /\ getStats.errorCount = C40_StatsOf(outcomes).errorCount
         /\ getStats.errorBreakdown = C40_StatsOf(outcomes).errorBreakdown
         /\ activeRequests = EmptyMap
\* both calls have ended after two tracked attempts each: one success and
\* three failures of two kinds
C40_Witness ==
    /\ pc = <<"success", "failed">>
    /\ outcomes = Tally(Tally(Tally(Tally(EmptyMap, "ok"), "AxiosError"), "AxiosError"), "")
    /\ getStats.requestCount = 4
    /\ getStats.errorBreakdown = Tally(Tally(Tally(EmptyMap, "AxiosError"), "AxiosError"),
                                       "UnknownError")
    /\ activeRequests = EmptyMap

====
